---- MODULE Spec2Model ----
(***************************************************************************)
(* The plugin dispatch engine of web/server/plugins/manager.ts             *)
(* (class PluginManager) as a state machine.                               *)
(*                                                                         *)
(* An optional JavaScript value (T | undefined) is a sequence of length    *)
(* 0 or 1: None is undefined, Some(x) is x.  A JavaScript object used as a *)
(* map (state.enabled, state.config, state.grants, event.data) is a        *)
(* function whose DOMAIN is the set of keys present.                       *)
(***************************************************************************)
EXTENDS Integers, Sequences, FiniteSets, TLC

VARIABLES
    definitions,          \* this.definitions: plugin ids in Map insertion order
    store,                \* this.stateStore: the persisted {enabled, config, grants}
    warnedInvalidConfig,  \* this.warnedInvalidConfig
    warnings,             \* history: the console.warn calls of resolveConfig, per plugin id
    stats,                \* this.stats
    health,               \* this.health
    durationWindows,      \* this.durationWindows
    emits,                \* the emit() calls: position and locals of each
    tasks,                \* executions of non-blocking plugins not yet settled
    dry,                  \* the dryRun() call in flight, if any
    dryRuns,              \* number of dryRun() calls started
    grantTrail,           \* history: the last revoke of a capability and what followed it
    obs                   \* what the last step returned, threw, invoked and delivered

vars == <<definitions, store, warnedInvalidConfig, warnings, stats, health, durationWindows,
          emits, tasks, dry, dryRuns, grantTrail, obs>>

----------------------------------------------------------------------------
(* Bounds of the model *)

MaxEmits == 1
MaxDryRuns == 1
MaxSamples == 100

(* Program constants *)

DEFAULT_TIMEOUT_MS == 3000
WindowCap == 100
DegradedThreshold == 3

----------------------------------------------------------------------------
(* Optional values and maps *)

None == <<>>
Some(x) == <<x>>
IsSome(o) == Len(o) > 0
Val(o) == o[1]

Get(map, key) == IF key \in DOMAIN map THEN Some(map[key]) ELSE None
Put(map, key, value) ==
    [k \in DOMAIN map \cup {key} |-> IF k = key THEN value ELSE map[k]]
EmptyMap == [k \in {} |-> TRUE]

Range(seq) == {seq[i] : i \in 1..Len(seq)}
IndexOf(seq, x) == CHOOSE i \in 1..Len(seq) : seq[i] = x

(* seq[lo] + ... + seq[hi], by halves *)
RECURSIVE SumRange(_, _, _)
SumRange(seq, lo, hi) ==
    IF lo > hi THEN 0
    ELSE IF lo = hi THEN seq[lo]
    ELSE SumRange(seq, lo, (lo + hi) \div 2) + SumRange(seq, (lo + hi) \div 2 + 1, hi)

SumSeq(seq) == SumRange(seq, 1, Len(seq))

----------------------------------------------------------------------------
(* Capabilities, in the order sanitizeResultForCapabilities tests them *)

CapPermission == "permission:auto-decide"
CapMutate == "message:mutate"
CapPatch == "event:patch"
CapToast == "insight:toast"
CapSound == "insight:sound"
CapDesktop == "insight:desktop"
Capabilities == {CapPermission, CapMutate, CapPatch, CapToast, CapSound, CapDesktop}

----------------------------------------------------------------------------
(* The plugin definitions handed to register(): a bounded set of           *)
(* PluginDefinition values.  capabilities and failPolicy are optional      *)
(* fields of a definition; validateConfig is present or not.               *)

UnknownId == "unknown-plugin"

PluginDefs ==
    [ guard |->
        [ id |-> "guard", events |-> {"*"}, priority |-> 100, blocking |-> TRUE,
          failPolicy |-> Some("abort_current_action"), defaultEnabled |-> TRUE,
          defaultConfig |-> "guard-default", hasValidator |-> TRUE,
          capabilities |-> Some(<<CapPermission, CapPatch>>) ],
      global |->
        [ id |-> "global", events |-> {"*"}, priority |-> 50, blocking |-> TRUE,
          failPolicy |-> None, defaultEnabled |-> TRUE,
          defaultConfig |-> "global-default", hasValidator |-> FALSE,
          capabilities |-> Some(<<CapMutate, CapToast>>) ],
      project |->
        [ id |-> "project", events |-> {"user.message.before_send"}, priority |-> 50,
          blocking |-> TRUE, failPolicy |-> Some("continue"), defaultEnabled |-> FALSE,
          defaultConfig |-> "project-default", hasValidator |-> FALSE,
          capabilities |-> None ],
      async |->
        [ id |-> "async", events |-> {"session.created"}, priority |-> 75,
          blocking |-> FALSE, failPolicy |-> Some("abort_current_action"),
          defaultEnabled |-> TRUE,
          defaultConfig |-> "async-default", hasValidator |-> TRUE,
          capabilities |-> Some(<<CapSound>>) ] ]

PluginIds == DOMAIN PluginDefs

(* Further definitions handed to register(): the two message middlewares,  *)
(* a plugin that patches the outgoing message's data between them, a       *)
(* second plugin that may decide permissions, and a non-blocking plugin    *)
(* that sorts before every other one.                                      *)
MiddlewareDefs ==
    ("global-plugin" :>
        [ id |-> "global-plugin", events |-> {"*"}, priority |-> 100, blocking |-> TRUE,
          failPolicy |-> None, defaultEnabled |-> TRUE,
          defaultConfig |-> "empty", hasValidator |-> FALSE,
          capabilities |-> Some(<<CapMutate>>) ])
    @@ ("project-plugin" :>
        [ id |-> "project-plugin", events |-> {"user.message.before_send"},
          priority |-> 50, blocking |-> TRUE,
          failPolicy |-> None, defaultEnabled |-> TRUE,
          defaultConfig |-> "empty", hasValidator |-> FALSE,
          capabilities |-> Some(<<CapMutate>>) ])
    @@ ("rewriter" :>
        [ id |-> "rewriter", events |-> {"user.message.before_send"},
          priority |-> 75, blocking |-> TRUE,
          failPolicy |-> None, defaultEnabled |-> TRUE,
          defaultConfig |-> "empty", hasValidator |-> FALSE,
          capabilities |-> Some(<<CapPatch>>) ])
    @@ ("auditor" :>
        [ id |-> "auditor", events |-> {"*"}, priority |-> 10, blocking |-> TRUE,
          failPolicy |-> Some("continue"), defaultEnabled |-> TRUE,
          defaultConfig |-> "empty", hasValidator |-> FALSE,
          capabilities |-> Some(<<CapPermission>>) ])
    @@ ("watcher" :>
        [ id |-> "watcher", events |-> {"*"}, priority |-> 150, blocking |-> FALSE,
          failPolicy |-> None, defaultEnabled |-> TRUE,
          defaultConfig |-> "empty", hasValidator |-> FALSE,
          capabilities |-> Some(<<CapToast>>) ])
Ids == PluginIds \cup {UnknownId}

(* The plugins the constructor registers, and those registered afterwards *)
GetBuiltinPlugins == <<"guard", "async">>
Registrable == {"global", "project"}

(* Config values: the values a validator rejects, and what it returns for *)
(* the values it accepts (a validator returns a normalised copy).          *)
ConfigValues == {"custom", "custom-extra", "not-an-object"}
InvalidConfigs == {"not-an-object"}
Normalised(raw) == IF raw = "custom-extra" THEN "custom" ELSE raw

----------------------------------------------------------------------------
(* Events.  event.data is an object in every PluginEvent; the message      *)
(* event carries the outgoing content, here a sequence of text pieces.     *)
(* objects tells which objects the event, its data and its meta are: 0 is  *)
(* the object the caller made, a greater number one that emit made.        *)

MessageEvent ==
    [ name |-> "user.message.before_send", sessionId |-> "s1",
      data |-> [content |-> <<"hello">>, origin |-> "caller"],
      objects |-> [event |-> 0, data |-> 0, meta |-> 0] ]
SessionEvent ==
    [ name |-> "session.created", sessionId |-> "s2",
      data |-> [origin |-> "caller"],
      objects |-> [event |-> 0, data |-> 0, meta |-> 0] ]
Events == {MessageEvent, SessionEvent}

(* { ...event, data }: a new event object with a new data object; meta and *)
(* the values inside data are the ones of event                            *)
Derived(event, data) ==
    [event EXCEPT !.data = data, !.objects.event = @ + 1, !.objects.data = @ + 1]

(* {...a, ...b} *)
Spread(a, b) == [k \in DOMAIN a \cup DOMAIN b |-> IF k \in DOMAIN b THEN b[k] ELSE a[k]]

----------------------------------------------------------------------------
(* What a handler can do when it is invoked: return nothing, return a      *)
(* PluginEventResult, throw or reject (with a truthy or a falsy value), or *)
(* not settle before the deadline.  A returned result is built from a      *)
(* shape: which optional fields it has and the flags of its insights.      *)

Flags(t, s, d) == [toast |-> t, sound |-> s, desktop |-> d]

ResultShapes ==
    { [pd |-> FALSE, umm |-> "none",    patch |-> FALSE, insights |-> <<Flags(TRUE, FALSE, FALSE)>>],
      [pd |-> TRUE,  umm |-> "none",    patch |-> TRUE,  insights |-> <<>>],
      [pd |-> FALSE, umm |-> "content", patch |-> FALSE, insights |-> <<>>],
      [pd |-> TRUE,  umm |-> "images",  patch |-> FALSE,
       insights |-> <<Flags(FALSE, TRUE, FALSE), Flags(TRUE, TRUE, FALSE)>>] }

(* Every shape over a few insight lists, for the calls that run one plugin *)
InsightLists ==
    { <<>>,
      <<Flags(FALSE, FALSE, FALSE)>>,
      <<Flags(TRUE, FALSE, FALSE)>>,
      <<Flags(FALSE, TRUE, FALSE), Flags(TRUE, TRUE, FALSE)>>,
      <<Flags(TRUE, FALSE, TRUE), Flags(TRUE, TRUE, TRUE)>> }

AllShapes ==
    [pd : BOOLEAN, umm : {"none", "content", "images"}, patch : BOOLEAN,
     insights : InsightLists]

Outcomes ==
    {[kind |-> "nothing"], [kind |-> "timeout"]}
    \cup {[kind |-> "throw", truthy |-> t] : t \in BOOLEAN}
    \cup {[kind |-> "result", shape |-> sh] : sh \in ResultShapes}

OwnInsight(pluginId, flags) ==
    [ plugin_id |-> pluginId, title |-> "Plugin note", level |-> "info",
      message |-> "", blocked |-> <<>>, event_name |-> "", session_id |-> "",
      toast |-> flags.toast, sound |-> flags.sound, desktop |-> flags.desktop ]

(* The content a handler derives from the content it received: the global *)
(* middleware puts its tag in front, every other handler appends one       *)
MutatedContent(pluginId, content) ==
    IF pluginId = "global-plugin" THEN <<"[global]">> \o content
    ELSE IF pluginId = "project-plugin" THEN content \o <<"[project]">>
    ELSE content \o <<pluginId>>

(* The eventDataPatch a handler returns: the rewriter replaces the content, *)
(* every other handler sets a key of its own                                *)
PatchOf(pluginId) ==
    IF pluginId = "rewriter" THEN [content |-> <<"rewritten">>]
    ELSE [origin |-> pluginId]

(* The PluginEventResult a handler returns for a shape, given the event it received *)
HandlerResult(pluginId, event, shape) ==
    [ permissionDecision |->
        IF shape.pd THEN Some([behavior |-> "deny", pluginId |-> pluginId]) ELSE None,
      userMessageMutation |->
        IF shape.umm = "content"
        THEN Some([content |-> MutatedContent(pluginId,
                                   IF "content" \in DOMAIN event.data
                                   THEN event.data.content ELSE <<>>),
                   pluginId |-> pluginId])
        ELSE IF shape.umm = "images"
        THEN Some([images |-> <<pluginId>>, pluginId |-> pluginId])
        ELSE None,
      eventDataPatch |-> IF shape.patch THEN Some(PatchOf(pluginId)) ELSE None,
      insights |-> [i \in 1..Len(shape.insights) |-> OwnInsight(pluginId, shape.insights[i])] ]

ErrorMessage(outcome) ==
    IF outcome.kind = "timeout" THEN "Plugin timeout after 3000ms"
    ELSE IF outcome.truthy THEN "boom" ELSE "undefined"

(* The message of the error a failing onInsight callback raises *)
CallbackError == "callback failed"

toPluginErrorInsight(pluginId, event, outcome) ==
    [ plugin_id |-> pluginId, title |-> "Plugin error", level |-> "error",
      message |-> ErrorMessage(outcome), blocked |-> <<>>,
      event_name |-> event.name, session_id |-> event.sessionId,
      toast |-> FALSE, sound |-> FALSE, desktop |-> FALSE ]

----------------------------------------------------------------------------
(* Telemetry records *)

createEmptyStats ==
    [ invocations |-> 0, successes |-> 0, errors |-> 0, timeouts |-> 0, aborted |-> 0,
      lastDurationMs |-> 0, avgDurationMs |-> 0, p95DurationMs |-> 0, lastError |-> None ]

createDefaultHealth(enabled) ==
    [ status |-> IF enabled THEN "healthy" ELSE "disabled", reason |-> None ]

----------------------------------------------------------------------------
(* The state store: getState() returns a snapshot, update(mutator) applies *)
(* the mutator to a draft and commits it.                                  *)

EmptyState == [enabled |-> EmptyMap, config |-> EmptyMap, grants |-> EmptyMap]

StoreGetState(st) == st
StoreUpdate(st, field, key, value) == [st EXCEPT ![field] = Put(st[field], key, value)]

----------------------------------------------------------------------------
(* The manager's fields as one record, threaded through the helpers that   *)
(* read and write them.                                                    *)

Manager == [ store |-> store, warned |-> warnedInvalidConfig, warnings |-> warnings,
             stats |-> stats, health |-> health, windows |-> durationWindows ]

Def(id) == IF id \in PluginIds THEN PluginDefs[id] ELSE MiddlewareDefs[id]

(* plugin.validateConfig(raw): throws on a value it rejects *)
ValidatorRejects(plugin, raw) == plugin.hasValidator /\ raw \in InvalidConfigs

(* resolveConfig handing back the value that failed validation *)
resolveConfigKeepingInvalid(plugin, stateConfig, persistDefaultOnInvalid) ==
    LET rawConfig == IF IsSome(stateConfig) THEN Val(stateConfig) ELSE plugin.defaultConfig
    IN  IF ~plugin.hasValidator
        THEN [config |-> rawConfig, invalid |-> FALSE, persist |-> FALSE]
        ELSE IF ValidatorRejects(plugin, rawConfig)
        THEN [config |-> rawConfig, invalid |-> TRUE, persist |-> FALSE]
        ELSE [config |-> Normalised(rawConfig), invalid |-> FALSE, persist |-> FALSE]

(* resolveConfig: the config it returns, whether validation threw, and     *)
(* whether the default is written back to the store.                       *)
resolveConfig(plugin, stateConfig, persistDefaultOnInvalid) ==
    LET rawConfig == IF IsSome(stateConfig) THEN Val(stateConfig) ELSE plugin.defaultConfig
    IN  IF ~plugin.hasValidator
        THEN [config |-> rawConfig, invalid |-> FALSE, persist |-> FALSE]
        ELSE IF ValidatorRejects(plugin, rawConfig)
        THEN [config |-> plugin.defaultConfig, invalid |-> TRUE,
              persist |-> persistDefaultOnInvalid /\ IsSome(stateConfig)]
        ELSE [config |-> Normalised(rawConfig), invalid |-> FALSE, persist |-> FALSE]

(* The effects of resolveConfig on the manager: the warning set and the store *)
ResolveConfigEffects(m, plugin, stateConfig, persistDefaultOnInvalid) ==
    LET r == resolveConfig(plugin, stateConfig, persistDefaultOnInvalid)
    IN  [m EXCEPT
           !.warned = IF r.invalid THEN @ \cup {plugin.id} ELSE @,
           !.warnings = IF r.invalid /\ plugin.id \notin m.warned
                        THEN Put(@, plugin.id,
                                 IF plugin.id \in DOMAIN @ THEN @[plugin.id] + 1 ELSE 1)
                        ELSE @,
           !.store  = IF r.persist
                      THEN StoreUpdate(@, "config", plugin.id, plugin.defaultConfig)
                      ELSE @]

getRequestedCapabilities(plugin) ==
    IF IsSome(plugin.capabilities) THEN Val(plugin.capabilities) ELSE <<>>

(* Every requested capability granted, whatever the store holds *)
resolveAllGranted(plugin, state) ==
    [cap \in Range(getRequestedCapabilities(plugin)) |-> TRUE]

(* grants[cap] !== false, for each requested capability *)
resolveCapabilityGrants(plugin, state) ==
    LET requested == getRequestedCapabilities(plugin)
        grants == IF plugin.id \in DOMAIN state.grants THEN state.grants[plugin.id] ELSE EmptyMap
    IN  [cap \in Range(requested) |-> ~(cap \in DOMAIN grants /\ grants[cap] = FALSE)]

(* The filter keeping only what the store holds as true *)
getExplicitlyGranted(plugin, state) ==
    LET grants == IF plugin.id \in DOMAIN state.grants THEN state.grants[plugin.id] ELSE EmptyMap
    IN  SelectSeq(getRequestedCapabilities(plugin), LAMBDA cap : cap \in DOMAIN grants /\ grants[cap])

getGrantedCapabilities(plugin, state) ==
    LET grants == resolveCapabilityGrants(plugin, state)
    IN  SelectSeq(getRequestedCapabilities(plugin), LAMBDA cap : grants[cap])

(* grants[cap] read as a condition: a key that is absent is undefined *)
Granted(grants, cap) == cap \in DOMAIN grants /\ grants[cap]

(* The callback without the blocked.includes tests *)
SanitizeInsightNoDedup(insight, grants, blocked) ==
    LET bt == insight.toast /\ ~Granted(grants, CapToast)
        bs == insight.sound /\ ~Granted(grants, CapSound)
        bd == insight.desktop /\ ~Granted(grants, CapDesktop)
    IN  [ insight |-> [insight EXCEPT !.toast = IF bt THEN FALSE ELSE @,
                                      !.sound = IF bs THEN FALSE ELSE @,
                                      !.desktop = IF bd THEN FALSE ELSE @],
          blocked |-> blocked \o (IF bt THEN <<CapToast>> ELSE <<>>)
                              \o (IF bs THEN <<CapSound>> ELSE <<>>)
                              \o (IF bd THEN <<CapDesktop>> ELSE <<>>) ]

(* The insights.map callback of sanitizeResultForCapabilities for one     *)
(* insight: the copy with the flags cleared, and the blocked list after it *)
SanitizeInsight(insight, grants, blocked) ==
    LET bt == insight.toast /\ ~Granted(grants, CapToast)
        bs == insight.sound /\ ~Granted(grants, CapSound)
        bd == insight.desktop /\ ~Granted(grants, CapDesktop)
        b1 == IF bt /\ CapToast \notin Range(blocked) THEN Append(blocked, CapToast) ELSE blocked
        b2 == IF bs /\ CapSound \notin Range(b1) THEN Append(b1, CapSound) ELSE b1
        b3 == IF bd /\ CapDesktop \notin Range(b2) THEN Append(b2, CapDesktop) ELSE b2
    IN  [ insight |-> [insight EXCEPT !.toast = IF bt THEN FALSE ELSE @,
                                      !.sound = IF bs THEN FALSE ELSE @,
                                      !.desktop = IF bd THEN FALSE ELSE @],
          blocked |-> b3 ]

RECURSIVE SanitizeInsights(_, _, _, _)
SanitizeInsights(insights, grants, blocked, done) ==
    IF insights = <<>> THEN [insights |-> done, blocked |-> blocked]
    ELSE LET r == SanitizeInsight(Head(insights), grants, blocked)
         IN  SanitizeInsights(Tail(insights), grants, r.blocked, Append(done, r.insight))

CapabilityBlockedInsight(pluginId, blocked) ==
    [ plugin_id |-> pluginId, title |-> "Capability blocked", level |-> "warning",
      message |-> "Blocked by capability grants", blocked |-> blocked,
      event_name |-> "", session_id |-> "",
      toast |-> FALSE, sound |-> FALSE, desktop |-> FALSE ]

sanitizeResultForCapabilities(plugin, result, grants) ==
    LET bp == IsSome(result.permissionDecision) /\ ~Granted(grants, CapPermission)
        bm == IsSome(result.userMessageMutation) /\ ~Granted(grants, CapMutate)
        be == IsSome(result.eventDataPatch) /\ ~Granted(grants, CapPatch)
        blocked3 == (IF bp THEN <<CapPermission>> ELSE <<>>)
                    \o (IF bm THEN <<CapMutate>> ELSE <<>>)
                    \o (IF be THEN <<CapPatch>> ELSE <<>>)
        ins == SanitizeInsights(result.insights, grants, blocked3, <<>>)
        blocked == ins.blocked
    IN  [ sanitized |->
            [ permissionDecision |-> IF bp THEN None ELSE result.permissionDecision,
              userMessageMutation |-> IF bm THEN None ELSE result.userMessageMutation,
              eventDataPatch |-> IF be THEN None ELSE result.eventDataPatch,
              insights |-> IF Len(blocked) > 0
                           THEN Append(ins.insights, CapabilityBlockedInsight(plugin.id, blocked))
                           ELSE ins.insights ],
          blocked |-> blocked ]

----------------------------------------------------------------------------
(* Telemetry *)

(* [...seq].sort((a, b) => a - b): the element at position i of seq goes *)
(* to the position that counts the smaller elements and the equal ones    *)
(* before it (the sort is stable)                                          *)
SortAscending(seq) ==
    LET n == Len(seq)
        position == [i \in 1..n |->
                       1 + Cardinality({j \in 1..n : \/ seq[j] < seq[i]
                                                     \/ seq[j] = seq[i] /\ j < i})]
    IN  [k \in 1..n |-> seq[CHOOSE i \in 1..n : position[i] = k]]

Min(a, b) == IF a < b THEN a ELSE b
Max(a, b) == IF a > b THEN a ELSE b

(* Math.round(sum / n) for non-negative integers *)
RoundDiv(sum, n) == (2 * sum + n) \div (2 * n)
(* Math.floor(n * 0.95) *)
Floor95(n) == (19 * n) \div 20
(* Math.ceil(n * 0.95) *)
Ceil95(n) == (19 * n + 19) \div 20

(* outcome is "success", "error", "timeout" or "aborted"; error is the optional lastError text *)
(* updateStatsOnRun dropping the newest samples of a window over the cap *)
updateStatsOnRunKeepingOldest(m, pluginId, durationMs, outcome, error) ==
    LET prev == IF pluginId \in DOMAIN m.stats THEN m.stats[pluginId] ELSE createEmptyStats
        appended == Append(IF pluginId \in DOMAIN m.windows THEN m.windows[pluginId] ELSE <<>>,
                           durationMs)
        win == IF Len(appended) > WindowCap
               THEN SubSeq(appended, 1, WindowCap)
               ELSE appended
        sorted == SortAscending(win)
        idx == Min(Len(sorted) - 1, Ceil95(Len(sorted)) - 1)
        next == [ invocations |-> prev.invocations + 1,
                  successes |-> prev.successes + (IF outcome = "success" THEN 1 ELSE 0),
                  errors |-> prev.errors + (IF outcome = "error" THEN 1 ELSE 0),
                  timeouts |-> prev.timeouts + (IF outcome = "timeout" THEN 1 ELSE 0),
                  aborted |-> prev.aborted + (IF outcome = "aborted" THEN 1 ELSE 0),
                  lastDurationMs |-> durationMs,
                  avgDurationMs |-> RoundDiv(SumSeq(win), Len(win)),
                  p95DurationMs |-> sorted[Max(0, idx) + 1],
                  lastError |-> IF IsSome(error) THEN error ELSE prev.lastError ]
        degraded == next.errors + next.timeouts >= DegradedThreshold /\ next.invocations > 0
    IN  [m EXCEPT
           !.windows = Put(@, pluginId, win),
           !.stats = Put(@, pluginId, next),
           !.health = Put(@, pluginId,
                          [ status |-> IF degraded THEN "degraded" ELSE "healthy",
                            reason |-> IF degraded THEN Some("High recent error rate") ELSE None ])]

updateStatsOnRun(m, pluginId, durationMs, outcome, error) ==
    LET prev == IF pluginId \in DOMAIN m.stats THEN m.stats[pluginId] ELSE createEmptyStats
        appended == Append(IF pluginId \in DOMAIN m.windows THEN m.windows[pluginId] ELSE <<>>,
                           durationMs)
        win == IF Len(appended) > WindowCap
               THEN SubSeq(appended, Len(appended) - WindowCap + 1, Len(appended))
               ELSE appended
        sorted == SortAscending(win)
        idx == Min(Len(sorted) - 1, Ceil95(Len(sorted)) - 1)
        next == [ invocations |-> prev.invocations + 1,
                  successes |-> prev.successes + (IF outcome = "success" THEN 1 ELSE 0),
                  errors |-> prev.errors + (IF outcome = "error" THEN 1 ELSE 0),
                  timeouts |-> prev.timeouts + (IF outcome = "timeout" THEN 1 ELSE 0),
                  aborted |-> prev.aborted + (IF outcome = "aborted" THEN 1 ELSE 0),
                  lastDurationMs |-> durationMs,
                  avgDurationMs |-> RoundDiv(SumSeq(win), Len(win)),
                  p95DurationMs |-> sorted[Max(0, idx) + 1],
                  lastError |-> IF IsSome(error) THEN error ELSE prev.lastError ]
        degraded == next.errors + next.timeouts >= DegradedThreshold /\ next.invocations > 0
    IN  [m EXCEPT
           !.windows = Put(@, pluginId, win),
           !.stats = Put(@, pluginId, next),
           !.health = Put(@, pluginId,
                          [ status |-> IF degraded THEN "degraded" ELSE "healthy",
                            reason |-> IF degraded THEN Some("High recent error rate") ELSE None ])]

(* The health record written only for a plugin that has none *)
updateHealthIfMissing(m, pluginId, enabled) ==
    IF pluginId \in DOMAIN m.health THEN m
    ELSE [m EXCEPT !.health = Put(@, pluginId, createDefaultHealth(enabled))]

updateHealthFromEnabled(m, pluginId, enabled) ==
    IF ~enabled
    THEN [m EXCEPT !.health = Put(@, pluginId,
                                  [status |-> "disabled", reason |-> Some("Plugin disabled")])]
    ELSE IF pluginId \notin DOMAIN m.health \/ m.health[pluginId].status = "disabled"
    THEN [m EXCEPT !.health = Put(@, pluginId, [status |-> "healthy", reason |-> None])]
    ELSE m

(* The saved choice ignored *)
ResolveEnabledFromDefault(plugin, state) == plugin.defaultEnabled

(* The enabled flag read from the store as it is now, not from the state handed in *)
ResolveEnabledLive(plugin, state) ==
    IF plugin.id \in DOMAIN store.enabled THEN store.enabled[plugin.id]
    ELSE plugin.defaultEnabled

(* typeof savedEnabled === "boolean" ? savedEnabled : plugin.defaultEnabled *)
ResolveEnabled(plugin, state) ==
    IF plugin.id \in DOMAIN state.enabled THEN state.enabled[plugin.id] ELSE plugin.defaultEnabled

----------------------------------------------------------------------------
(* list(): one PluginRuntimeInfo per definition, in Map order.  Building a *)
(* row resolves the config (healing the store) and refreshes the health.   *)

ListRow(m, plugin, state) ==
    LET enabled == ResolveEnabled(plugin, state)
        stateConfig == Get(state.config, plugin.id)
        m1 == ResolveConfigEffects(m, plugin, stateConfig, TRUE)
        m2 == updateHealthFromEnabled(m1, plugin.id, enabled)
    IN  [ m |-> m2,
          row |-> [ id |-> plugin.id,
                    priority |-> plugin.priority,
                    blocking |-> plugin.blocking,
                    timeoutMs |-> DEFAULT_TIMEOUT_MS,
                    failPolicy |-> IF IsSome(plugin.failPolicy) THEN Val(plugin.failPolicy)
                                   ELSE "continue",
                    enabled |-> enabled,
                    config |-> resolveConfig(plugin, stateConfig, TRUE).config,
                    capabilitiesRequested |-> getRequestedCapabilities(plugin),
                    capabilitiesGranted |-> getGrantedCapabilities(plugin, state),
                    health |-> m2.health[plugin.id],
                    stats |-> IF plugin.id \in DOMAIN m2.stats THEN m2.stats[plugin.id]
                              ELSE createEmptyStats ] ]

RECURSIVE ListFrom(_, _, _, _)
ListFrom(m, state, ids, rows) ==
    IF ids = <<>> THEN [m |-> m, rows |-> rows]
    ELSE LET r == ListRow(m, Def(Head(ids)), state)
         IN  ListFrom(r.m, state, Tail(ids), Append(rows, r.row))

list(m, defs) == ListFrom(m, StoreGetState(m.store), defs, <<>>)

(* this.list().find((row) => row.id === id) || null *)
FindRow(rows, id) ==
    IF \E i \in 1..Len(rows) : rows[i].id = id
    THEN Some(rows[CHOOSE i \in 1..Len(rows) : rows[i].id = id])
    ELSE None

----------------------------------------------------------------------------
(* What a step lets its caller observe *)

NoArg == [enabled |-> None, config |-> None, grants |-> None]

(* History of a revoke followed by a re-grant of the same capability of the same plugin *)
NoTrail == [phase |-> "none", id |-> "", cap |-> "", before |-> EmptyMap]

NoObs ==
    [ op |-> "none", id |-> "", emit |-> 0,
      arg |-> NoArg,         \* the value the call was given
      threw |-> None,        \* the error the call raised
      rows |-> <<>>,         \* the snapshot list() built
      row |-> None,          \* the row an administrative call returned (None is null)
      statsResult |-> None,  \* the PluginStats getStats returned (None is null)
      result |-> None,       \* the EmitResult an emit returned
      dryResult |-> None,    \* the PluginDryRunResult a dryRun returned
      dryTrail |-> NoTrail,  \* the grant history when that dryRun was called
      invoked |-> <<>>,      \* the handler invocations the step made, in order
      settled |-> None,      \* the execution that settled in the step, and how
      delivered |-> <<>>,    \* the insights handed to onInsight
      callbackThrew |-> FALSE, \* whether a call of onInsight raised an error
      locals |-> None,       \* emit's locals when the step ended
      pushed |-> <<>> ]      \* the insights the step appended to emit's list

SetManager(m) ==
    /\ store' = m.store
    /\ warnedInvalidConfig' = m.warned
    /\ warnings' = m.warnings
    /\ stats' = m.stats
    /\ health' = m.health
    /\ durationWindows' = m.windows

----------------------------------------------------------------------------
(* register, list and the administrative calls *)

Register(id) ==
    /\ id \in PluginIds \cup DOMAIN MiddlewareDefs
    /\ definitions' = IF id \in Range(definitions) THEN definitions
                      ELSE Append(definitions, id)
    /\ stats' = IF id \in DOMAIN stats THEN stats ELSE Put(stats, id, createEmptyStats)
    /\ health' = IF id \in DOMAIN health THEN health
                 ELSE Put(health, id, createDefaultHealth(Def(id).defaultEnabled))
    /\ obs' = [NoObs EXCEPT !.op = "register", !.id = id]
    /\ UNCHANGED <<store, warnedInvalidConfig, warnings, durationWindows, emits, tasks, dry, dryRuns, grantTrail>>

List ==
    LET r == list(Manager, definitions)
    IN  /\ SetManager(r.m)
        /\ obs' = [NoObs EXCEPT !.op = "list", !.rows = r.rows]
        /\ UNCHANGED <<definitions, emits, tasks, dry, dryRuns, grantTrail>>

ReturnNull(op, id, arg) ==
    /\ obs' = [NoObs EXCEPT !.op = op, !.id = id, !.arg = arg]
    /\ UNCHANGED <<definitions, store, warnedInvalidConfig, warnings, stats, health, durationWindows,
                   emits, tasks, dry, dryRuns, grantTrail>>

GetStats(id) ==
    IF id \notin Range(definitions) THEN ReturnNull("getStats", id, NoArg)
    ELSE /\ obs' = [NoObs EXCEPT !.op = "getStats", !.id = id,
                                 !.statsResult = Some(IF id \in DOMAIN stats THEN stats[id]
                                                      ELSE createEmptyStats)]
         /\ UNCHANGED <<definitions, store, warnedInvalidConfig, warnings, stats, health,
                        durationWindows, emits, tasks, dry, dryRuns, grantTrail>>

(* setEnabled writing the store before it looks the plugin up *)
SetEnabledUnchecked(id, enabled) ==
    IF id \notin Range(definitions)
    THEN /\ obs' = [NoObs EXCEPT !.op = "setEnabled", !.id = id,
                                 !.arg.enabled = Some(enabled)]
         /\ store' = StoreUpdate(store, "enabled", id, enabled)
         /\ UNCHANGED <<definitions, warnedInvalidConfig, warnings, stats, health, durationWindows,
                        emits, tasks, dry, dryRuns, grantTrail>>
    ELSE LET m1 == [Manager EXCEPT !.store = StoreUpdate(@, "enabled", id, enabled)]
             m2 == updateHealthFromEnabled(m1, id, enabled)
             r == list(m2, definitions)
         IN  /\ SetManager(r.m)
             /\ obs' = [NoObs EXCEPT !.op = "setEnabled", !.id = id, !.rows = r.rows,
                                     !.arg.enabled = Some(enabled),
                                     !.row = FindRow(r.rows, id)]
             /\ UNCHANGED <<definitions, emits, tasks, dry, dryRuns, grantTrail>>

SetEnabled(id, enabled) ==
    IF id \notin Range(definitions) THEN ReturnNull("setEnabled", id, [NoArg EXCEPT !.enabled = Some(enabled)])
    ELSE LET m1 == [Manager EXCEPT !.store = StoreUpdate(@, "enabled", id, enabled)]
             m2 == updateHealthFromEnabled(m1, id, enabled)
             r == list(m2, definitions)
         IN  /\ SetManager(r.m)
             /\ obs' = [NoObs EXCEPT !.op = "setEnabled", !.id = id, !.rows = r.rows,
                                     !.arg.enabled = Some(enabled),
                                     !.row = FindRow(r.rows, id)]
             /\ UNCHANGED <<definitions, emits, tasks, dry, dryRuns, grantTrail>>

(* updateConfig writing the value before it validates it *)
UpdateConfigWriteFirst(id, rawConfig) ==
    IF id \notin Range(definitions) THEN ReturnNull("updateConfig", id, [NoArg EXCEPT !.config = Some(rawConfig)])
    ELSE IF ValidatorRejects(Def(id), rawConfig)
    THEN /\ obs' = [NoObs EXCEPT !.op = "updateConfig", !.id = id, !.arg.config = Some(rawConfig),
                       !.threw = Some([name |-> "PluginConfigValidationError", pluginId |-> id])]
         /\ store' = StoreUpdate(store, "config", id, rawConfig)
         /\ UNCHANGED <<definitions, warnedInvalidConfig, warnings, stats, health,
                        durationWindows, emits, tasks, dry, dryRuns, grantTrail>>
    ELSE LET config == IF Def(id).hasValidator THEN Normalised(rawConfig) ELSE rawConfig
             m1 == [Manager EXCEPT !.store = StoreUpdate(@, "config", id, config),
                                   !.warned = @ \ {id}]
             r == list(m1, definitions)
         IN  /\ SetManager(r.m)
             /\ obs' = [NoObs EXCEPT !.op = "updateConfig", !.id = id, !.rows = r.rows,
                                     !.arg.config = Some(rawConfig),
                                     !.row = FindRow(r.rows, id)]
             /\ UNCHANGED <<definitions, emits, tasks, dry, dryRuns, grantTrail>>

UpdateConfig(id, rawConfig) ==
    IF id \notin Range(definitions) THEN ReturnNull("updateConfig", id, [NoArg EXCEPT !.config = Some(rawConfig)])
    ELSE IF ValidatorRejects(Def(id), rawConfig)
    THEN /\ obs' = [NoObs EXCEPT !.op = "updateConfig", !.id = id, !.arg.config = Some(rawConfig),
                       !.threw = Some([name |-> "PluginConfigValidationError", pluginId |-> id])]
         /\ UNCHANGED <<definitions, store, warnedInvalidConfig, warnings, stats, health,
                        durationWindows, emits, tasks, dry, dryRuns, grantTrail>>
    ELSE LET config == IF Def(id).hasValidator THEN Normalised(rawConfig) ELSE rawConfig
             m1 == [Manager EXCEPT !.store = StoreUpdate(@, "config", id, config),
                                   !.warned = @ \ {id}]
             r == list(m1, definitions)
         IN  /\ SetManager(r.m)
             /\ obs' = [NoObs EXCEPT !.op = "updateConfig", !.id = id, !.rows = r.rows,
                                     !.arg.config = Some(rawConfig),
                                     !.row = FindRow(r.rows, id)]
             /\ UNCHANGED <<definitions, emits, tasks, dry, dryRuns, grantTrail>>

(* A supplied grant value is a boolean or something else (typeof test) *)
BoolValue(b) == [type |-> "boolean", value |-> b]
OtherValue == [type |-> "string", value |-> FALSE]

(* The draft mutation taking only the revocations *)
MergeRevocations(plugin, state, grants) ==
    LET requested == getRequestedCapabilities(plugin)
        current == IF plugin.id \in DOMAIN state.grants THEN state.grants[plugin.id]
                   ELSE EmptyMap
        supplied == {cap \in Range(requested) :
                        cap \in DOMAIN grants /\ grants[cap] = BoolValue(FALSE)}
    IN  [cap \in DOMAIN current \cup supplied |->
            IF cap \in supplied THEN FALSE ELSE current[cap]]

(* The draft mutation taking every boolean supplied, requested or not *)
MergeGrantsUnrequested(plugin, state, grants) ==
    LET current == IF plugin.id \in DOMAIN state.grants THEN state.grants[plugin.id]
                   ELSE EmptyMap
        supplied == {cap \in DOMAIN grants : grants[cap].type = "boolean"}
    IN  [cap \in DOMAIN current \cup supplied |->
            IF cap \in supplied THEN grants[cap].value ELSE current[cap]]

(* The draft mutation of updateCapabilityGrants *)
MergeGrants(plugin, state, grants) ==
    LET requested == getRequestedCapabilities(plugin)
        current == IF plugin.id \in DOMAIN state.grants THEN state.grants[plugin.id]
                   ELSE EmptyMap
        supplied == {cap \in Range(requested) :
                        cap \in DOMAIN grants /\ grants[cap].type = "boolean"}
    IN  [cap \in DOMAIN current \cup supplied |->
            IF cap \in supplied THEN grants[cap].value ELSE current[cap]]

(* The history after updateCapabilityGrants(id, grants) *)
NextGrantTrail(id, grants) ==
    IF \E cap \in Capabilities : grants = Put(EmptyMap, cap, BoolValue(FALSE))
    THEN [ phase |-> "revoked", id |-> id,
           cap |-> CHOOSE cap \in Capabilities : grants = Put(EmptyMap, cap, BoolValue(FALSE)),
           before |-> resolveCapabilityGrants(Def(id), store) ]
    ELSE IF /\ grantTrail.phase = "revoked"
            /\ grantTrail.id = id
            /\ grants = Put(EmptyMap, grantTrail.cap, BoolValue(TRUE))
    THEN [grantTrail EXCEPT !.phase = "regranted"]
    ELSE IF grantTrail.id = id THEN NoTrail
    ELSE grantTrail

UpdateCapabilityGrants(id, grants) ==
    IF id \notin Range(definitions) THEN ReturnNull("updateCapabilityGrants", id, [NoArg EXCEPT !.grants = Some(grants)])
    ELSE LET m1 == [Manager EXCEPT
                      !.store = StoreUpdate(@, "grants", id, MergeGrants(Def(id), @, grants))]
             r == list(m1, definitions)
         IN  /\ SetManager(r.m)
             /\ obs' = [NoObs EXCEPT !.op = "updateCapabilityGrants", !.id = id,
                                     !.arg.grants = Some(grants),
                                     !.rows = r.rows, !.row = FindRow(r.rows, id)]
             /\ grantTrail' = NextGrantTrail(id, grants)
             /\ UNCHANGED <<definitions, emits, tasks, dry, dryRuns>>

----------------------------------------------------------------------------
(* emit.  An emit runs without interruption from its start to the first    *)
(* await of a blocking plugin (or to its return), and from the settlement  *)
(* of an awaited plugin to the next await (or to its return).              *)

EmitIds == 1..MaxEmits
Durations == {7}

IdleEmit ==
    [ pc |-> "idle", event |-> None, state |-> EmptyState, candidates |-> <<>>, idx |-> 0,
      mutableEvent |-> None, insights |-> <<>>, permissionDecision |-> None,
      userMessageMutation |-> None, aborted |-> FALSE, exec |-> None,
      started |-> <<>>,      \* history: the plugins whose handler the emit invoked
      running |-> <<>>,      \* history: the awaited handlers that have not settled
      skipAtStart |-> {} ]   \* history: the ids persisted as disabled when it started

DoneEmit == [IdleEmit EXCEPT !.pc = "done"]

(* Insertion of plugin id x into a list sorted by (a, b) => b.priority - a.priority, *)
(* after every element that does not sort after it: Array.prototype.sort is stable.  *)
RECURSIVE InsertBeforeEqual(_, _)
InsertBeforeEqual(sorted, x) ==
    IF sorted = <<>> THEN <<x>>
    ELSE IF Def(Head(sorted)).priority - Def(x).priority <= 0
    THEN <<x>> \o sorted
    ELSE <<Head(sorted)>> \o InsertBeforeEqual(Tail(sorted), x)

(* Insertion into a list sorted by (a, b) => a.priority - b.priority *)
RECURSIVE InsertByPriorityAscending(_, _)
InsertByPriorityAscending(sorted, x) ==
    IF sorted = <<>> THEN <<x>>
    ELSE IF Def(x).priority - Def(Head(sorted)).priority < 0
    THEN <<x>> \o sorted
    ELSE <<Head(sorted)>> \o InsertByPriorityAscending(Tail(sorted), x)

RECURSIVE InsertByPriority(_, _)
InsertByPriority(sorted, x) ==
    IF sorted = <<>> THEN <<x>>
    ELSE IF Def(Head(sorted)).priority - Def(x).priority < 0
    THEN <<x>> \o sorted
    ELSE <<Head(sorted)>> \o InsertByPriority(Tail(sorted), x)

RECURSIVE SortByPriority(_, _)
SortByPriority(ids, sorted) ==
    IF ids = <<>> THEN sorted
    ELSE SortByPriority(Tail(ids), InsertByPriority(sorted, Head(ids)))

Subscribed(plugin, event) == "*" \in plugin.events \/ event.name \in plugin.events

Candidates(defs, event) ==
    SortByPriority(SelectSeq(defs, LAMBDA id : Subscribed(Def(id), event)), <<>>)

(* executePlugin counting the invocation before the handler has settled *)
ExecutePluginStartCounting(m, plugin, event, stateConfig) ==
    LET m1 == ResolveConfigEffects(m, plugin, stateConfig, TRUE)
        prev == IF plugin.id \in DOMAIN m1.stats THEN m1.stats[plugin.id] ELSE createEmptyStats
    IN  [ m |-> [m1 EXCEPT !.stats = Put(@, plugin.id,
                                         [prev EXCEPT !.invocations = @ + 1])],
          exec |-> [ plugin |-> plugin.id,
                     config |-> resolveConfig(plugin, stateConfig, TRUE).config,
                     grants |-> resolveCapabilityGrants(plugin, StoreGetState(m1.store)),
                     received |-> event,
                     persisted |-> IF plugin.id \in DOMAIN m1.store.grants
                                   THEN m1.store.grants[plugin.id] ELSE EmptyMap ] ]

(* executePlugin up to its await: the config is resolved (healing the store), the  *)
(* grants are read from the store, and the handler is invoked.                     *)
ExecutePluginStart(m, plugin, event, stateConfig) ==
    LET m1 == ResolveConfigEffects(m, plugin, stateConfig, TRUE)
    IN  [ m |-> m1,
          exec |-> [ plugin |-> plugin.id,
                     config |-> resolveConfig(plugin, stateConfig, TRUE).config,
                     grants |-> resolveCapabilityGrants(plugin, StoreGetState(m1.store)),
                     received |-> event,
                     \* history: the grants persisted for the plugin at this moment
                     persisted |-> IF plugin.id \in DOMAIN m1.store.grants
                                   THEN m1.store.grants[plugin.id] ELSE EmptyMap ] ]

(* if (exec.error): the caught value is tested for truthiness *)
ExecError(outcome) ==
    outcome.kind = "timeout" \/ (outcome.kind = "throw" /\ outcome.truthy)

(* What executePlugin returns once the handler has settled *)
ExecutePluginEnd(exec, outcome) ==
    IF outcome.kind = "result"
    THEN LET s == sanitizeResultForCapabilities(
                      Def(exec.plugin),
                      HandlerResult(exec.plugin, exec.received, outcome.shape),
                      exec.grants)
         IN  [result |-> Some(s.sanitized), blockedCapabilities |-> s.blocked]
    ELSE [result |-> None, blockedCapabilities |-> <<>>]

StatsOutcome(outcome) == IF outcome.kind = "timeout" THEN "timeout" ELSE "error"

(* The for loop of emit from candidate c.em.idx on, up to the next await or the return. *)
(* c is [m, em, tasks, invoked]; e is the emit's id.                                    *)
RECURSIVE EmitLoop(_, _)
EmitLoop(c, e) ==
    IF c.em.idx > Len(c.em.candidates)
    THEN [c EXCEPT !.em.pc = "return"]
    ELSE
      LET plugin == Def(c.em.candidates[c.em.idx])
          enabled == ResolveEnabled(plugin, c.em.state)
          m1 == updateHealthFromEnabled(c.m, plugin.id, enabled)
      IN  IF ~enabled
          THEN EmitLoop([c EXCEPT !.m = m1, !.em.idx = @ + 1], e)
          ELSE
            LET x == ExecutePluginStart(m1, plugin, Val(c.em.mutableEvent),
                                        Get(c.em.state.config, plugin.id))
                inv == [emit |-> e, exec |-> x.exec]
            IN  IF ~plugin.blocking
                THEN EmitLoop([c EXCEPT
                                 !.m = x.m,
                                 !.tasks = @ \cup {[emit |-> e, event |-> Val(c.em.event),
                                                    exec |-> x.exec]},
                                 !.invoked = Append(@, inv),
                                 !.em.started = Append(@, plugin.id),
                                 !.em.idx = @ + 1], e)
                ELSE [c EXCEPT !.m = x.m,
                               !.invoked = Append(@, inv),
                               !.em.started = Append(@, plugin.id),
                               !.em.running = Append(@, plugin.id),
                               !.em.exec = Some(x.exec),
                               !.em.pc = "awaiting"]

EmitResult(em) ==
    [ insights |-> em.insights, permissionDecision |-> em.permissionDecision,
      userMessageMutation |-> em.userMessageMutation, aborted |-> em.aborted ]

(* The step of emit e ends in c: either it awaits a plugin or it returns *)
EmitStepEnds(c, e, settled) ==
    /\ SetManager(c.m)
    /\ tasks' = c.tasks
    /\ emits' = [emits EXCEPT ![e] = IF c.em.pc = "return" THEN DoneEmit ELSE c.em]
    /\ obs' = [NoObs EXCEPT !.op = "emit", !.emit = e,
                            !.invoked = c.invoked, !.settled = settled,
                            !.locals = Some([c.em EXCEPT !.pc = "", !.exec = None]),
                            !.pushed = SubSeq(c.em.insights, Len(emits[e].insights) + 1,
                                              Len(c.em.insights)),
                            !.result = IF c.em.pc = "return" THEN Some(EmitResult(c.em))
                                       ELSE None]
    /\ UNCHANGED <<definitions, dry, dryRuns, grantTrail>>

EmitBegin(e, event) ==
    /\ emits[e].pc = "idle"
    /\ \A f \in EmitIds : f < e => emits[f].pc # "idle"
    /\ LET state == StoreGetState(store)
           em == [IdleEmit EXCEPT
                    !.event = Some(event), !.state = state,
                    !.mutableEvent = Some(event),
                    !.candidates = Candidates(definitions, event),
                    !.idx = 1,
                    !.skipAtStart = {id \in DOMAIN store.enabled : ~store.enabled[id]}]
       IN  EmitStepEnds(EmitLoop([m |-> Manager, em |-> em, tasks |-> tasks,
                                  invoked |-> <<>>], e),
                        e, None)

(* The fold of a result where the mutation replaces the accumulated one *)
ApplyResultLastMutation(em, result) ==
    LET ev == Val(em.mutableEvent)
        ev1 == IF IsSome(result.eventDataPatch)
               THEN Derived(ev, Spread(ev.data, Val(result.eventDataPatch)))
               ELSE ev
        mutation == IF IsSome(result.userMessageMutation)
                    THEN Val(result.userMessageMutation) ELSE EmptyMap
        nextData == Spread(ev1.data,
                           [k \in DOMAIN mutation \cap {"content", "images"} |-> mutation[k]])
        ev2 == IF IsSome(result.userMessageMutation) /\ ev1.name = "user.message.before_send"
               THEN Derived(ev1, nextData)
               ELSE ev1
    IN  [em EXCEPT
           !.mutableEvent = Some(ev2),
           !.insights = @ \o result.insights,
           !.permissionDecision =
               IF ~IsSome(@) /\ IsSome(result.permissionDecision)
               THEN result.permissionDecision ELSE @,
           !.userMessageMutation =
               IF IsSome(result.userMessageMutation)
               THEN result.userMessageMutation
               ELSE @]

(* The fold of a result where the patch is written into the data object of *)
(* the current event, which is the caller's until an event is derived       *)
ApplyResultInPlace(em, result) ==
    LET ev == Val(em.mutableEvent)
        ev1 == IF IsSome(result.eventDataPatch)
               THEN [ev EXCEPT !.data = Spread(@, Val(result.eventDataPatch))]
               ELSE ev
        mutation == IF IsSome(result.userMessageMutation)
                    THEN Val(result.userMessageMutation) ELSE EmptyMap
        nextData == Spread(ev1.data,
                           [k \in DOMAIN mutation \cap {"content", "images"} |-> mutation[k]])
        ev2 == IF IsSome(result.userMessageMutation) /\ ev1.name = "user.message.before_send"
               THEN Derived(ev1, nextData)
               ELSE ev1
    IN  [em EXCEPT
           !.event = IF Val(@).objects.data = ev.objects.data
                     THEN Some([Val(@) EXCEPT !.data = ev1.data]) ELSE @,
           !.mutableEvent = Some(ev2),
           !.insights = @ \o result.insights,
           !.permissionDecision =
               IF ~IsSome(@) /\ IsSome(result.permissionDecision)
               THEN result.permissionDecision ELSE @,
           !.userMessageMutation =
               IF IsSome(result.userMessageMutation)
               THEN Some(Spread(IF IsSome(@) THEN Val(@) ELSE EmptyMap, mutation))
               ELSE @]

(* The fold of a result that leaves the derived event's content and images alone *)
ApplyResultNoChaining(em, result) ==
    LET ev == Val(em.mutableEvent)
        ev1 == IF IsSome(result.eventDataPatch)
               THEN Derived(ev, Spread(ev.data, Val(result.eventDataPatch)))
               ELSE ev
        mutation == IF IsSome(result.userMessageMutation)
                    THEN Val(result.userMessageMutation) ELSE EmptyMap
    IN  [em EXCEPT
           !.mutableEvent = Some(ev1),
           !.insights = @ \o result.insights,
           !.permissionDecision =
               IF ~IsSome(@) /\ IsSome(result.permissionDecision)
               THEN result.permissionDecision ELSE @,
           !.userMessageMutation =
               IF IsSome(result.userMessageMutation)
               THEN Some(Spread(IF IsSome(@) THEN Val(@) ELSE EmptyMap, mutation))
               ELSE @]

(* The fold of a result where the patch takes the place of the event's data *)
ApplyResultReplacingData(em, result) ==
    LET ev == Val(em.mutableEvent)
        ev1 == IF IsSome(result.eventDataPatch)
               THEN Derived(ev, Val(result.eventDataPatch))
               ELSE ev
        mutation == IF IsSome(result.userMessageMutation)
                    THEN Val(result.userMessageMutation) ELSE EmptyMap
        nextData == Spread(ev1.data,
                           [k \in DOMAIN mutation \cap {"content", "images"} |-> mutation[k]])
        ev2 == IF IsSome(result.userMessageMutation) /\ ev1.name = "user.message.before_send"
               THEN Derived(ev1, nextData)
               ELSE ev1
    IN  [em EXCEPT
           !.mutableEvent = Some(ev2),
           !.insights = @ \o result.insights,
           !.permissionDecision =
               IF ~IsSome(@) /\ IsSome(result.permissionDecision)
               THEN result.permissionDecision ELSE @,
           !.userMessageMutation =
               IF IsSome(result.userMessageMutation)
               THEN Some(Spread(IF IsSome(@) THEN Val(@) ELSE EmptyMap, mutation))
               ELSE @]

(* The fold of a result where a later permissionDecision replaces an earlier one *)
ApplyResultLastDecision(em, result) ==
    LET ev == Val(em.mutableEvent)
        ev1 == IF IsSome(result.eventDataPatch)
               THEN Derived(ev, Spread(ev.data, Val(result.eventDataPatch)))
               ELSE ev
        mutation == IF IsSome(result.userMessageMutation)
                    THEN Val(result.userMessageMutation) ELSE EmptyMap
        nextData == Spread(ev1.data,
                           [k \in DOMAIN mutation \cap {"content", "images"} |-> mutation[k]])
        ev2 == IF IsSome(result.userMessageMutation) /\ ev1.name = "user.message.before_send"
               THEN Derived(ev1, nextData)
               ELSE ev1
    IN  [em EXCEPT
           !.mutableEvent = Some(ev2),
           !.insights = @ \o result.insights,
           !.permissionDecision =
               IF IsSome(result.permissionDecision)
               THEN result.permissionDecision ELSE @,
           !.userMessageMutation =
               IF IsSome(result.userMessageMutation)
               THEN Some(Spread(IF IsSome(@) THEN Val(@) ELSE EmptyMap, mutation))
               ELSE @]

(* Lines 490-522: the result of a blocking plugin is folded into the emit's locals *)
ApplyResult(em, result) ==
    LET ev == Val(em.mutableEvent)
        ev1 == IF IsSome(result.eventDataPatch)
               THEN Derived(ev, Spread(ev.data, Val(result.eventDataPatch)))
               ELSE ev
        mutation == IF IsSome(result.userMessageMutation)
                    THEN Val(result.userMessageMutation) ELSE EmptyMap
        nextData == Spread(ev1.data,
                           [k \in DOMAIN mutation \cap {"content", "images"} |-> mutation[k]])
        ev2 == IF IsSome(result.userMessageMutation) /\ ev1.name = "user.message.before_send"
               THEN Derived(ev1, nextData)
               ELSE ev1
    IN  [em EXCEPT
           !.mutableEvent = Some(ev2),
           !.insights = @ \o result.insights,
           !.permissionDecision =
               IF ~IsSome(@) /\ IsSome(result.permissionDecision)
               THEN result.permissionDecision ELSE @,
           !.userMessageMutation =
               IF IsSome(result.userMessageMutation)
               THEN Some(Spread(IF IsSome(@) THEN Val(@) ELSE EmptyMap, mutation))
               ELSE @]

(* The awaited plugin settled, with the abort recorded as a run of outcome *)
(* "aborted"                                                                *)
BlockingSettledRecordingAbort(m, em, outcome, durationMs) ==
    LET exec == Val(em.exec)
        plugin == Def(exec.plugin)
        failPolicy == IF IsSome(plugin.failPolicy) THEN Val(plugin.failPolicy) ELSE "continue"
        out == ExecutePluginEnd(exec, outcome)
    IN  IF ExecError(outcome)
        THEN LET m1 == updateStatsOnRun(m, plugin.id, durationMs, StatsOutcome(outcome),
                                        Some(ErrorMessage(outcome)))
                 em1 == [em EXCEPT !.insights =
                            Append(@, toPluginErrorInsight(plugin.id, Val(em.event), outcome)),
                            !.exec = None,
                            !.running = IF outcome.kind = "timeout" THEN @
                                        ELSE SelectSeq(@, LAMBDA id : id # plugin.id)]
             IN  IF failPolicy = "abort_current_action"
                 THEN [ m |-> updateStatsOnRun(m1, plugin.id, durationMs, "aborted", None),
                        em |-> [em1 EXCEPT !.aborted = TRUE, !.pc = "break"] ]
                 ELSE [m |-> m1, em |-> [em1 EXCEPT !.idx = @ + 1]]
        ELSE LET m1 == updateStatsOnRun(m, plugin.id, durationMs, "success", None)
                 em1 == [em EXCEPT !.exec = None, !.idx = @ + 1,
                                   !.running = SelectSeq(@, LAMBDA id : id # plugin.id)]
             IN  [ m |-> m1,
                   em |-> IF IsSome(out.result) THEN ApplyResult(em1, Val(out.result))
                          ELSE em1 ]

(* Lines 471-523 for the awaited plugin: telemetry, fail policy, result *)
BlockingSettled(m, em, outcome, durationMs) ==
    LET exec == Val(em.exec)
        plugin == Def(exec.plugin)
        failPolicy == IF IsSome(plugin.failPolicy) THEN Val(plugin.failPolicy) ELSE "continue"
        out == ExecutePluginEnd(exec, outcome)
    IN  IF ExecError(outcome)
        THEN LET m1 == updateStatsOnRun(m, plugin.id, durationMs, StatsOutcome(outcome),
                                        Some(ErrorMessage(outcome)))
                 \* runWithTimeout rejects at the deadline; the handler runs on
                 em1 == [em EXCEPT !.insights =
                            Append(@, toPluginErrorInsight(plugin.id, Val(em.event), outcome)),
                            !.exec = None,
                            !.running = IF outcome.kind = "timeout" THEN @
                                        ELSE SelectSeq(@, LAMBDA id : id # plugin.id)]
             IN  IF failPolicy = "abort_current_action"
                 THEN [ m |-> [m1 EXCEPT !.stats[plugin.id].aborted = @ + 1],
                        em |-> [em1 EXCEPT !.aborted = TRUE, !.pc = "break"] ]
                 ELSE [m |-> m1, em |-> [em1 EXCEPT !.idx = @ + 1]]
        ELSE LET m1 == updateStatsOnRun(m, plugin.id, durationMs, "success", None)
                 em1 == [em EXCEPT !.exec = None, !.idx = @ + 1,
                                   !.running = SelectSeq(@, LAMBDA id : id # plugin.id)]
             IN  [ m |-> m1,
                   em |-> IF IsSome(out.result) THEN ApplyResult(em1, Val(out.result))
                          ELSE em1 ]

(* The await of a blocking plugin without the race against the deadline *)
EmitSettleNoDeadline(e, outcome, durationMs) ==
    /\ emits[e].pc = "awaiting"
    /\ outcome.kind # "timeout"
    /\ LET exec == Val(emits[e].exec)
           r == BlockingSettled(Manager, emits[e], outcome, durationMs)
           settled == Some([exec |-> exec, outcome |-> outcome, blocking |-> TRUE])
       IN  IF r.em.pc = "break"
           THEN EmitStepEnds([m |-> r.m, em |-> [r.em EXCEPT !.pc = "return"],
                              tasks |-> tasks, invoked |-> <<>>], e, settled)
           ELSE EmitStepEnds(EmitLoop([m |-> r.m, em |-> r.em, tasks |-> tasks,
                                       invoked |-> <<>>], e),
                             e, settled)

EmitSettle(e, outcome, durationMs) ==
    /\ emits[e].pc = "awaiting"
    /\ LET exec == Val(emits[e].exec)
           r == BlockingSettled(Manager, emits[e], outcome, durationMs)
           settled == Some([exec |-> exec, outcome |-> outcome, blocking |-> TRUE])
       IN  IF r.em.pc = "break"
           THEN EmitStepEnds([m |-> r.m, em |-> [r.em EXCEPT !.pc = "return"],
                              tasks |-> tasks, invoked |-> <<>>], e, settled)
           ELSE EmitStepEnds(EmitLoop([m |-> r.m, em |-> r.em, tasks |-> tasks,
                                       invoked |-> <<>>], e),
                             e, settled)

(* The then-callback applying the fail policy to the emit that started the task *)
TaskSettleAborting(task, outcome, durationMs) ==
    /\ task \in tasks
    /\ LET exec == task.exec
           out == ExecutePluginEnd(exec, outcome)
           m1 == IF ExecError(outcome)
                 THEN updateStatsOnRun(Manager, exec.plugin, durationMs,
                                       StatsOutcome(outcome), Some(ErrorMessage(outcome)))
                 ELSE updateStatsOnRun(Manager, exec.plugin, durationMs, "success", None)
       IN  /\ SetManager(m1)
           /\ obs' = [NoObs EXCEPT
                        !.op = "onSettled", !.id = exec.plugin, !.emit = task.emit,
                        !.settled = Some([exec |-> exec, outcome |-> outcome,
                                          blocking |-> FALSE]),
                        !.delivered =
                            IF ExecError(outcome)
                            THEN <<toPluginErrorInsight(exec.plugin, task.event, outcome)>>
                            ELSE IF IsSome(out.result) THEN Val(out.result).insights
                            ELSE <<>>]
           /\ emits' = IF ExecError(outcome)
                          /\ Def(exec.plugin).failPolicy = Some("abort_current_action")
                       THEN [emits EXCEPT ![task.emit].aborted = TRUE]
                       ELSE emits
    /\ tasks' = tasks \ {task}
    /\ UNCHANGED <<definitions, dry, dryRuns, grantTrail>>

(* The then-callback adding the insights to the list of the emit that       *)
(* started the task                                                          *)
TaskSettleIntoEmit(task, outcome, durationMs) ==
    /\ task \in tasks
    /\ LET exec == task.exec
           out == ExecutePluginEnd(exec, outcome)
           m1 == IF ExecError(outcome)
                 THEN updateStatsOnRun(Manager, exec.plugin, durationMs,
                                       StatsOutcome(outcome), Some(ErrorMessage(outcome)))
                 ELSE updateStatsOnRun(Manager, exec.plugin, durationMs, "success", None)
           calls == IF ExecError(outcome)
                    THEN <<toPluginErrorInsight(exec.plugin, task.event, outcome)>>
                    ELSE IF IsSome(out.result) THEN Val(out.result).insights
                    ELSE <<>>
       IN  /\ SetManager(m1)
           /\ obs' = [NoObs EXCEPT
                        !.op = "onSettled", !.id = exec.plugin, !.emit = task.emit,
                        !.settled = Some([exec |-> exec, outcome |-> outcome,
                                          blocking |-> FALSE])]
           /\ emits' = [emits EXCEPT ![task.emit].insights = @ \o calls]
    /\ tasks' = tasks \ {task}
    /\ UNCHANGED <<definitions, dry, dryRuns, grantTrail>>

(* Lines 450-462: the then-callback of a non-blocking execution *)
TaskSettle(task, outcome, durationMs) ==
    /\ task \in tasks
    /\ LET exec == task.exec
           out == ExecutePluginEnd(exec, outcome)
           m1 == IF ExecError(outcome)
                 THEN updateStatsOnRun(Manager, exec.plugin, durationMs,
                                       StatsOutcome(outcome), Some(ErrorMessage(outcome)))
                 ELSE updateStatsOnRun(Manager, exec.plugin, durationMs, "success", None)
       IN  /\ SetManager(m1)
           /\ obs' = [NoObs EXCEPT
                        !.op = "onSettled", !.id = exec.plugin, !.emit = task.emit,
                        !.settled = Some([exec |-> exec, outcome |-> outcome,
                                          blocking |-> FALSE]),
                        !.delivered =
                            IF ExecError(outcome)
                            THEN <<toPluginErrorInsight(exec.plugin, task.event, outcome)>>
                            ELSE IF IsSome(out.result) THEN Val(out.result).insights
                            ELSE <<>>]
    /\ tasks' = tasks \ {task}
    /\ UNCHANGED <<definitions, emits, dry, dryRuns, grantTrail>>

(* Lines 450-466 when the at-th call of onInsight made by the then-callback *)
(* raises an error: the calls after it are not made, and the catch-callback *)
(* records an error of duration 0 and hands onInsight an error insight      *)
TaskSettleCallbackThrows(task, outcome, durationMs, at) ==
    /\ task \in tasks
    /\ LET exec == task.exec
           out == ExecutePluginEnd(exec, outcome)
           m1 == IF ExecError(outcome)
                 THEN updateStatsOnRun(Manager, exec.plugin, durationMs,
                                       StatsOutcome(outcome), Some(ErrorMessage(outcome)))
                 ELSE updateStatsOnRun(Manager, exec.plugin, durationMs, "success", None)
           m2 == updateStatsOnRun(m1, exec.plugin, 0, "error", Some(CallbackError))
           calls == IF ExecError(outcome)
                    THEN <<toPluginErrorInsight(exec.plugin, task.event, outcome)>>
                    ELSE IF IsSome(out.result) THEN Val(out.result).insights
                    ELSE <<>>
           caught == [toPluginErrorInsight(exec.plugin, task.event,
                                           [kind |-> "throw", truthy |-> TRUE])
                        EXCEPT !.message = CallbackError]
       IN  /\ at \in 1..Len(calls)
           /\ SetManager(m2)
           /\ obs' = [NoObs EXCEPT
                        !.op = "onSettled", !.id = exec.plugin, !.emit = task.emit,
                        !.settled = Some([exec |-> exec, outcome |-> outcome,
                                          blocking |-> FALSE]),
                        !.delivered = SubSeq(calls, 1, at) \o <<caught>>,
                        !.callbackThrew = TRUE]
    /\ tasks' = tasks \ {task}
    /\ UNCHANGED <<definitions, emits, dry, dryRuns, grantTrail>>

----------------------------------------------------------------------------
(* dryRun *)

(* dryRun choosing its plugin the way emit chooses candidates *)
DryRunBeginIfCandidate(id, event, rawConfig) ==
    /\ ~IsSome(dry)
    /\ dryRuns < MaxDryRuns
    /\ dryRuns' = dryRuns + 1
    /\ IF \/ id \notin Range(definitions)
          \/ ~Subscribed(Def(id), event)
          \/ ~ResolveEnabled(Def(id), StoreGetState(store))
       THEN /\ obs' = [NoObs EXCEPT !.op = "dryRun", !.id = id, !.arg.config = rawConfig]
            /\ UNCHANGED <<definitions, store, warnedInvalidConfig, warnings, stats, health,
                           durationWindows, emits, tasks, dry, grantTrail>>
       ELSE LET x == ExecutePluginStart(Manager, Def(id), event, rawConfig)
            IN  /\ SetManager(x.m)
                /\ dry' = Some([event |-> event, exec |-> x.exec, trail |-> grantTrail])
                /\ obs' = [NoObs EXCEPT !.op = "dryRun", !.id = id, !.arg.config = rawConfig,
                                        !.invoked = <<[emit |-> 0, exec |-> x.exec]>>]
                /\ UNCHANGED <<definitions, emits, tasks, grantTrail>>

DryRunBegin(id, event, rawConfig) ==
    /\ ~IsSome(dry)
    /\ dryRuns < MaxDryRuns
    /\ dryRuns' = dryRuns + 1
    /\ IF id \notin Range(definitions)
       THEN /\ obs' = [NoObs EXCEPT !.op = "dryRun", !.id = id, !.arg.config = rawConfig]
            /\ UNCHANGED <<definitions, store, warnedInvalidConfig, warnings, stats, health,
                           durationWindows, emits, tasks, dry, grantTrail>>
       ELSE LET x == ExecutePluginStart(Manager, Def(id), event, rawConfig)
            IN  /\ SetManager(x.m)
                /\ dry' = Some([event |-> event, exec |-> x.exec, trail |-> grantTrail])
                /\ obs' = [NoObs EXCEPT !.op = "dryRun", !.id = id, !.arg.config = rawConfig,
                                        !.invoked = <<[emit |-> 0, exec |-> x.exec]>>]
                /\ UNCHANGED <<definitions, emits, tasks, grantTrail>>

DryRunSettle(outcome, durationMs) ==
    /\ IsSome(dry)
    /\ LET exec == Val(dry).exec
           out == ExecutePluginEnd(exec, outcome)
           res == IF IsSome(out.result) THEN Val(out.result)
                  ELSE [ permissionDecision |-> None, userMessageMutation |-> None,
                         eventDataPatch |-> None, insights |-> <<>> ]
           settled == Some([exec |-> exec, outcome |-> outcome, blocking |-> TRUE])
       IN  IF ExecError(outcome)
           THEN /\ SetManager(updateStatsOnRun(Manager, exec.plugin, durationMs,
                                               StatsOutcome(outcome),
                                               Some(ErrorMessage(outcome))))
                /\ obs' = [NoObs EXCEPT
                             !.op = "dryRun", !.id = exec.plugin, !.settled = settled,
                             !.dryTrail = Val(dry).trail,
                             !.dryResult = Some(
                                [ pluginId |-> exec.plugin, applied |-> FALSE,
                                  blockedByCapabilities |-> <<>>,
                                  result |-> [ insights |-> <<toPluginErrorInsight(
                                                   exec.plugin, Val(dry).event, outcome)>>,
                                               permissionDecision |-> None,
                                               userMessageMutation |-> None,
                                               aborted |-> FALSE ] ])]
           ELSE /\ SetManager(updateStatsOnRun(Manager, exec.plugin, durationMs,
                                               "success", None))
                /\ obs' = [NoObs EXCEPT
                             !.op = "dryRun", !.id = exec.plugin, !.settled = settled,
                             !.dryTrail = Val(dry).trail,
                             !.dryResult = Some(
                                [ pluginId |-> exec.plugin, applied |-> IsSome(out.result),
                                  blockedByCapabilities |-> out.blockedCapabilities,
                                  result |-> [ insights |-> res.insights,
                                               permissionDecision |-> res.permissionDecision,
                                               userMessageMutation |-> res.userMessageMutation,
                                               aborted |-> FALSE ] ])]
    /\ dry' = None
    /\ UNCHANGED <<definitions, emits, tasks, dryRuns, grantTrail>>

----------------------------------------------------------------------------
(* The manager after construction over a store that holds earlier choices  *)

RECURSIVE RegisterAll(_, _)
RegisterAll(ids, acc) ==
    IF ids = <<>> THEN acc
    ELSE RegisterAll(Tail(ids),
            [ definitions |-> IF Head(ids) \in Range(acc.definitions) THEN acc.definitions
                              ELSE Append(acc.definitions, Head(ids)),
              stats |-> IF Head(ids) \in DOMAIN acc.stats THEN acc.stats
                        ELSE Put(acc.stats, Head(ids), createEmptyStats),
              health |-> IF Head(ids) \in DOMAIN acc.health THEN acc.health
                         ELSE Put(acc.health, Head(ids),
                                  createDefaultHealth(Def(Head(ids)).defaultEnabled)) ])

Constructed ==
    RegisterAll(GetBuiltinPlugins,
                [definitions |-> <<>>, stats |-> EmptyMap, health |-> EmptyMap])

(* The stores a manager is constructed over: empty, or with a config written by hand *)
InitialStores ==
    {EmptyState}
    \cup {[EmptyState EXCEPT !.config = Put(EmptyMap, id, "not-an-object")] :
             id \in {"guard", "async"}}

(* The manager constructed over a store of stores, after register() calls for regs *)
InitWith(stores, regs) ==
    /\ definitions = RegisterAll(regs, Constructed).definitions
    /\ stats = RegisterAll(regs, Constructed).stats
    /\ health = RegisterAll(regs, Constructed).health
    /\ store \in stores
    /\ warnedInvalidConfig = {}
    /\ warnings = EmptyMap
    /\ durationWindows = EmptyMap
    /\ emits = [e \in EmitIds |-> IdleEmit]
    /\ tasks = {}
    /\ dry = None
    /\ dryRuns = 0
    /\ grantTrail = NoTrail
    /\ obs = NoObs

Init == InitWith(InitialStores, <<>>)

GrantInputs ==
    {Put(EmptyMap, cap, BoolValue(b)) : cap \in {CapPermission, CapMutate, CapSound}, b \in BOOLEAN}
    \cup { Put(EmptyMap, CapPatch, OtherValue),
           [k \in {CapToast, CapDesktop} |-> BoolValue(FALSE)] }

Next ==
    \/ \E id \in Registrable : Register(id)
    \/ List
    \/ \E id \in Ids, enabled \in BOOLEAN : SetEnabled(id, enabled)
    \/ \E id \in Ids, raw \in ConfigValues : UpdateConfig(id, raw)
    \/ \E id \in Ids, grants \in GrantInputs : UpdateCapabilityGrants(id, grants)
    \/ \E e \in EmitIds, event \in Events : EmitBegin(e, event)
    \/ \E e \in EmitIds, outcome \in Outcomes, d \in Durations : EmitSettle(e, outcome, d)
    \/ \E task \in tasks, outcome \in Outcomes, d \in Durations : TaskSettle(task, outcome, d)
    \/ \E id \in Ids, event \in Events, raw \in {None} \cup {Some(v) : v \in ConfigValues} :
          DryRunBegin(id, event, raw)
    \/ \E outcome \in Outcomes, d \in Durations : DryRunSettle(outcome, d)

Spec == Init /\ [][Next]_vars

----------------------------------------------------------------------------
(* Dispatch: registration, enabling and one event sent through the chain   *)

DispatchOutcomes ==
    {o \in Outcomes : o.kind = "result" => (o.shape.pd /\ o.shape.patch)}

InitDispatch == InitWith({EmptyState}, <<>>)

(* The steps of emit calls whose handlers settle with an outcome of outs *)
Dispatching(outs) ==
    \/ \E e \in EmitIds, event \in Events : EmitBegin(e, event)
    \/ \E e \in EmitIds, outcome \in outs, d \in Durations : EmitSettle(e, outcome, d)
    \/ \E task \in tasks, outcome \in outs, d \in Durations : TaskSettle(task, outcome, d)

NextDispatch ==
    \/ \E id \in Registrable : Register(id)
    \/ \E enabled \in BOOLEAN : SetEnabled("project", enabled)
    \/ Dispatching(DispatchOutcomes)

SpecDispatch == InitDispatch /\ [][NextDispatch]_vars

(* Enabling and disabling around emit calls *)
EnableOutcomes == {o \in Outcomes : o.kind \in {"nothing", "timeout"}}

NextEnable ==
    \/ Register("global")
    \/ \E id \in Ids \ {"project"}, enabled \in BOOLEAN : SetEnabled(id, enabled)
    \/ List
    \/ Dispatching(EnableOutcomes)

SpecEnable == InitDispatch /\ [][NextEnable]_vars

(* The capability gate.  The stores hold the grants of one plugin, each of *)
(* its requested capabilities granted, revoked or without an entry.       *)
GrantMaps(plugin) ==
    UNION { [caps -> BOOLEAN] : caps \in SUBSET Range(getRequestedCapabilities(plugin)) }

GrantStores ==
    UNION { { [EmptyState EXCEPT !.grants = Put(EmptyMap, id, g),
                                 !.enabled = Put(EmptyMap, "project", TRUE)] :
                g \in GrantMaps(Def(id)) } : id \in PluginIds }

InitGate == InitWith(GrantStores, <<"project", "global">>)

DryRunning(ids, raws, outs) ==
    \/ \E id \in ids, event \in Events, raw \in raws : DryRunBegin(id, event, raw)
    \/ \E outcome \in outs, d \in Durations : DryRunSettle(outcome, d)

(* One plugin run by dryRun, for every shape of result *)
SanitizeOutcomes == {[kind |-> "result", shape |-> sh] : sh \in AllShapes}

NextSanitize == DryRunning(PluginIds, {None}, SanitizeOutcomes)

SpecSanitize == InitGate /\ [][NextSanitize]_vars

(* The gate in emit and dryRun, with a grant revoked or given back meanwhile *)
GateOutcomes ==
    {o \in Outcomes : o.kind = "result" /\ (o.shape.pd \/ o.shape.umm # "none")}

(* A behaviour of SpecGate serves emit calls or dryRun calls *)
NoDryRunYet == dryRuns = 0
NoEmitYet == \A e \in EmitIds : emits[e].pc = "idle"

NextGate ==
    \/ \E b \in BOOLEAN :
          UpdateCapabilityGrants("guard", Put(EmptyMap, CapPermission, BoolValue(b)))
    \/ NoDryRunYet /\ Dispatching(GateOutcomes)
    \/ NoEmitYet /\ DryRunning(PluginIds, {None}, GateOutcomes)

SpecGate == InitGate /\ [][NextGate]_vars

(* Grants revoked and given back, and what dryRun then returns *)
RoundTripOutcomes ==
    {o \in Outcomes : o.kind = "result" /\ o.shape.pd /\ Len(o.shape.insights) = 2}

RoundTripInputs ==
    {Put(EmptyMap, cap, BoolValue(b)) : cap \in {CapPermission, CapMutate, CapToast},
                                        b \in BOOLEAN}

(* The grant calls are made between the dryRun calls, not during one *)
NextRoundTrip ==
    \/ /\ ~IsSome(dry)
       /\ \E id \in {"guard", "global"}, grants \in RoundTripInputs :
             UpdateCapabilityGrants(id, grants)
    \/ DryRunning({"guard", "global"}, {None}, RoundTripOutcomes)

SpecRoundTrip == InitWith({EmptyState}, <<"project", "global">>) /\ [][NextRoundTrip]_vars

(* The administration of grants: list() over every store of grants, and    *)
(* updateCapabilityGrants with booleans, other values and unrequested names *)
NextGrants ==
    \/ List
    \/ \E id \in {"guard", UnknownId}, grants \in GrantInputs :
          UpdateCapabilityGrants(id, grants)

SpecGrants == InitGate /\ [][NextGrants]_vars

(* The administration of configs over stores that may hold a config written *)
(* by hand, with one event sent through the chain                          *)
ConfigOutcomes == {o \in Outcomes : o.kind = "nothing"}

NextConfig ==
    \/ Register("global")
    \/ List
    \/ \E id \in {"guard", "global", UnknownId}, raw \in ConfigValues : UpdateConfig(id, raw)
    \/ Dispatching(ConfigOutcomes)

SpecConfig == Init /\ [][NextConfig]_vars

(* runWithTimeout: the timer of an awaited plugin is set when the handler is *)
(* invoked and fires unless the handler has settled first                   *)
DeadlinePasses ==
    \E e \in EmitIds, d \in Durations : EmitSettle(e, [kind |-> "timeout"], d)

NextDeadline ==
    \/ \E id \in Registrable : Register(id)
    \/ Dispatching(EnableOutcomes)

SpecDeadline == InitDispatch /\ [][NextDeadline]_vars /\ WF_vars(DeadlinePasses)

BlockingStarted(e) == SelectSeq(emits[e].started, LAMBDA id : Def(id).blocking)

FailPolicyOf(id) ==
    IF IsSome(Def(id).failPolicy) THEN Val(Def(id).failPolicy) ELSE "continue"

(* The handler failed: it threw, rejected, or did not settle before its deadline *)
HandlerFailed(outcome) == outcome.kind \in {"throw", "timeout"}

(* C1: in every emit the handlers of the blocking candidates are invoked in *)
(* non-increasing priority order, and among candidates of equal priority   *)
(* the one registered first is invoked first.                              *)
C1_BlockingPriorityOrder ==
    \A e \in EmitIds :
        LET b == BlockingStarted(e)
        IN  \A i, j \in 1..Len(b) :
               i < j =>
                 \/ Def(b[i]).priority > Def(b[j]).priority
                 \/ /\ Def(b[i]).priority = Def(b[j]).priority
                    /\ IndexOf(definitions, b[i]) < IndexOf(definitions, b[j])

(* C1 witness: an emit has invoked three blocking plugins, the two of equal *)
(* priority in their registration order, which is not the order of their ids *)
C1_Witness ==
    \E e \in EmitIds :
        /\ BlockingStarted(e) = <<"guard", "project", "global">>
        /\ IndexOf(definitions, "project") < IndexOf(definitions, "global")

(* C2: when a blocking plugin whose fail policy is abort_current_action     *)
(* fails (throws, rejects or exceeds its deadline), the emit returns with  *)
(* aborted set and invokes no further handler.                             *)
C2_AbortStopsDispatch ==
    (/\ obs.op = "emit"
     /\ IsSome(obs.settled)
     /\ FailPolicyOf(Val(obs.settled).exec.plugin) = "abort_current_action"
     /\ HandlerFailed(Val(obs.settled).outcome))
    => /\ IsSome(obs.result)
       /\ Val(obs.result).aborted
       /\ \A i \in 1..Len(obs.invoked) : ~Def(obs.invoked[i].exec.plugin).blocking

(* C3: when a blocking plugin whose fail policy is continue or unspecified  *)
(* fails, one error insight with its id, the event name and the session id *)
(* is appended, aborted is not set, and the dispatch goes on.              *)
C3_ContinueAppendsErrorInsight ==
    (/\ obs.op = "emit"
     /\ IsSome(obs.settled)
     /\ FailPolicyOf(Val(obs.settled).exec.plugin) = "continue"
     /\ HandlerFailed(Val(obs.settled).outcome))
    => /\ Len(obs.pushed) = 1
       /\ obs.pushed[1].level = "error"
       /\ obs.pushed[1].plugin_id = Val(obs.settled).exec.plugin
       /\ obs.pushed[1].event_name = Val(Val(obs.locals).event).name
       /\ obs.pushed[1].session_id = Val(Val(obs.locals).event).sessionId
       /\ ~Val(obs.locals).aborted

(* C4: an emit that starts while a plugin is persisted as disabled invokes  *)
(* no handler of that plugin, blocking or not, and the row setEnabled and  *)
(* list return for a disabled plugin reads health disabled.                *)
C4_DisabledPluginSkipped ==
    /\ obs.op = "emit" =>
          \A i \in 1..Len(obs.invoked) :
              obs.invoked[i].exec.plugin \notin Val(obs.locals).skipAtStart
    /\ \A i \in 1..Len(obs.rows) :
          (obs.rows[i].id \in DOMAIN store.enabled /\ ~store.enabled[obs.rows[i].id])
          => obs.rows[i].health.status = "disabled"
    /\ (obs.op = "setEnabled" /\ obs.arg.enabled = Some(FALSE) /\ obs.id \in Range(definitions))
          => /\ IsSome(obs.row)
             /\ ~Val(obs.row).enabled
             /\ Val(obs.row).health.status = "disabled"

(* C4 witness: an emit that started after a blocking and a non-blocking     *)
(* subscriber were disabled has run through the chain and invoked another  *)
C4_Witness ==
    /\ obs.op = "emit"
    /\ Val(obs.locals).event = Some(SessionEvent)
    /\ {"guard", "async"} \subseteq Val(obs.locals).skipAtStart
    /\ Len(obs.invoked) = 1
    /\ obs.invoked[1].exec.plugin = "global"
    /\ health["async"].status = "disabled"

(* The effects of plugin p that the last step made visible: in emit's locals *)
(* and result, in the event handed to the handlers it invoked, in dryRun's  *)
(* result.  Every effect carries the id of the plugin that produced it.     *)
DecisionBy(decision, p) == IsSome(decision) /\ Val(decision).pluginId = p
MutationBy(mutation, p) == IsSome(mutation) /\ Val(mutation).pluginId = p
MutatedBy(data, p) ==
    \/ "content" \in DOMAIN data /\ p \in Range(data.content)
    \/ "images" \in DOMAIN data /\ p \in Range(data.images)
PatchedBy(data, p) == data.origin = p

EventsSeen ==
    (IF IsSome(obs.locals) THEN {Val(Val(obs.locals).mutableEvent)} ELSE {})
    \cup {obs.invoked[i].exec.received : i \in 1..Len(obs.invoked)}

VisibleEffects(p) ==
    {cap \in {CapPermission} :
        \/ IsSome(obs.locals) /\ DecisionBy(Val(obs.locals).permissionDecision, p)
        \/ IsSome(obs.result) /\ DecisionBy(Val(obs.result).permissionDecision, p)
        \/ IsSome(obs.dryResult) /\ DecisionBy(Val(obs.dryResult).result.permissionDecision, p)}
    \cup {cap \in {CapMutate} :
        \/ IsSome(obs.locals) /\ MutationBy(Val(obs.locals).userMessageMutation, p)
        \/ IsSome(obs.result) /\ MutationBy(Val(obs.result).userMessageMutation, p)
        \/ IsSome(obs.dryResult) /\ MutationBy(Val(obs.dryResult).result.userMessageMutation, p)
        \/ \E ev \in EventsSeen : MutatedBy(ev.data, p)}
    \cup {cap \in {CapPatch} : \E ev \in EventsSeen : PatchedBy(ev.data, p)}

(* cap is declared by plugin p and not false in the grants persisted for p *)
DeclaredAndNotRevoked(p, cap, persisted) ==
    /\ cap \in Range(getRequestedCapabilities(Def(p)))
    /\ ~(cap \in DOMAIN persisted /\ persisted[cap] = FALSE)

(* C5: when a plugin's execution settles, a permissionDecision, a           *)
(* userMessageMutation or an eventDataPatch of that plugin is visible (in   *)
(* emit's locals and result, in the event later plugins receive, in dryRun's *)
(* result) only if the plugin declares the matching capability and the      *)
(* grants persisted when the execution read them do not hold it as false;   *)
(* a plugin without a capability list has none of the three visible.        *)
C5_EffectsNeedCapability ==
    IsSome(obs.settled) =>
        LET exec == Val(obs.settled).exec
        IN  /\ \A cap \in VisibleEffects(exec.plugin) :
                   DeclaredAndNotRevoked(exec.plugin, cap, exec.persisted)
            /\ ~IsSome(Def(exec.plugin).capabilities) => VisibleEffects(exec.plugin) = {}

(* C5 witness: in an emit, the plugin without a capability list settled with *)
(* a decision and a mutation, both stripped, after the decision of a plugin *)
(* that holds permission:auto-decide took effect                            *)
C5_Witness ==
    /\ obs.op = "emit"
    /\ IsSome(obs.settled)
    /\ Val(obs.settled).exec.plugin = "project"
    /\ Val(obs.settled).outcome.shape.pd
    /\ Val(obs.settled).outcome.shape.umm # "none"
    /\ DecisionBy(Val(obs.locals).permissionDecision, "guard")
    /\ ~IsSome(Val(obs.locals).userMessageMutation)

(* The capabilities the gate blocks for a result of shape sh under the      *)
(* effective grants g, and where each first occurs in the result: the three *)
(* privileged fields first, then the insights in order, and in an insight   *)
(* toast, sound, desktop.                                                   *)
FlagCaps == <<CapToast, CapSound, CapDesktop>>
FlagSet(flags, k) == IF k = 1 THEN flags.toast ELSE IF k = 2 THEN flags.sound ELSE flags.desktop

BlockedFlagAt(sh, g, i, k) == FlagSet(sh.insights[i], k) /\ ~Granted(g, FlagCaps[k])

ShouldBlock(sh, g) ==
    {cap \in {CapPermission} : sh.pd /\ ~Granted(g, cap)}
    \cup {cap \in {CapMutate} : sh.umm # "none" /\ ~Granted(g, cap)}
    \cup {cap \in {CapPatch} : sh.patch /\ ~Granted(g, cap)}
    \cup {FlagCaps[k] : k \in {k \in 1..3 : \E i \in 1..Len(sh.insights) :
                                                BlockedFlagAt(sh, g, i, k)}}

FirstOccurrence(sh, g, cap) ==
    IF cap = CapPermission THEN 1
    ELSE IF cap = CapMutate THEN 2
    ELSE IF cap = CapPatch THEN 3
    ELSE LET k == CHOOSE k \in 1..3 : FlagCaps[k] = cap
             i == CHOOSE i \in 1..Len(sh.insights) :
                     /\ BlockedFlagAt(sh, g, i, k)
                     /\ \A j \in 1..(i - 1) : ~BlockedFlagAt(sh, g, j, k)
         IN  3 * i + k

BlockedInsights(insights) ==
    {i \in 1..Len(insights) : insights[i].title = "Capability blocked"}

(* C6: when a plugin's result settles in dryRun, the returned insights are  *)
(* the plugin's own, followed, exactly when the gate blocked something, by  *)
(* one warning titled "Capability blocked" that names every blocked         *)
(* capability once, in the order of first occurrence in the result; when    *)
(* nothing is blocked no such insight is there.                             *)
C6_OneBlockedInsight ==
    (/\ obs.op = "dryRun"
     /\ IsSome(obs.settled)
     /\ Val(obs.settled).outcome.kind = "result")
    => LET exec == Val(obs.settled).exec
           sh == Val(obs.settled).outcome.shape
           own == Len(sh.insights)
           insights == Val(obs.dryResult).result.insights
           should == ShouldBlock(sh, exec.grants)
       IN  IF should = {}
           THEN /\ Len(insights) = own
                /\ BlockedInsights(insights) = {}
                /\ Val(obs.dryResult).blockedByCapabilities = <<>>
           ELSE /\ Len(insights) = own + 1
                /\ BlockedInsights(insights) = {own + 1}
                /\ insights[own + 1].level = "warning"
                /\ insights[own + 1].plugin_id = exec.plugin
                /\ LET named == insights[own + 1].blocked
                   IN  /\ Range(named) = should
                       /\ Len(named) = Cardinality(should)
                       /\ \A i, j \in 1..Len(named) :
                              i < j => FirstOccurrence(sh, exec.grants, named[i])
                                        < FirstOccurrence(sh, exec.grants, named[j])
                       /\ Val(obs.dryResult).blockedByCapabilities = named

(* C6 witness: a result whose two insights both lose toast and desktop, and *)
(* the second also sound, and whose decision is stripped: four names, each  *)
(* once                                                                     *)
C6_Witness ==
    /\ obs.op = "dryRun"
    /\ IsSome(obs.settled)
    /\ Val(obs.settled).outcome.kind = "result"
    /\ Len(Val(obs.settled).outcome.shape.insights) = 2
    /\ Val(obs.dryResult).blockedByCapabilities
          = <<CapPermission, CapToast, CapDesktop, CapSound>>
    /\ Len(Val(obs.dryResult).result.insights) = 3

(* The result dryRun returns for a handler result of shape sh when the gate *)
(* lets everything in grants through                                        *)
RequestedBy(id, cap) == cap \in Range(getRequestedCapabilities(Def(id)))

CarriesEffect(result, sh, cap) ==
    /\ (cap = CapPermission /\ sh.pd) => IsSome(result.permissionDecision)
    /\ (cap = CapMutate /\ sh.umm # "none") => IsSome(result.userMessageMutation)
    /\ cap \in Range(FlagCaps) =>
          \A i \in 1..Len(sh.insights) :
              FlagSet(sh.insights[i], IndexOf(FlagCaps, cap))
                  = FlagSet(result.insights[i], IndexOf(FlagCaps, cap))

(* C7: once updateCapabilityGrants(id, {cap: false}) has been followed by   *)
(* updateCapabilityGrants(id, {cap: true}) for a capability the plugin      *)
(* requests, the capability is granted and no other grant of the plugin has *)
(* changed; a dryRun of the plugin called from then on returns the effect   *)
(* of cap and does not name cap as blocked, and if cap was granted before   *)
(* the revoke the whole result is blocked exactly as it was then.           *)
C7_RevokeRegrantRoundTrip ==
    /\ (grantTrail.phase = "regranted" /\ RequestedBy(grantTrail.id, grantTrail.cap))
       => LET now == resolveCapabilityGrants(Def(grantTrail.id), store)
          IN  /\ now[grantTrail.cap]
              /\ \A cap \in DOMAIN now \ {grantTrail.cap} : now[cap] = grantTrail.before[cap]
              /\ getGrantedCapabilities(Def(grantTrail.id), store)
                    = SelectSeq(getRequestedCapabilities(Def(grantTrail.id)),
                                LAMBDA cap : cap = grantTrail.cap \/ grantTrail.before[cap])
    /\ (/\ obs.op = "dryRun"
        /\ IsSome(obs.settled)
        /\ obs.dryTrail.phase = "regranted"
        /\ obs.dryTrail.id = obs.id
        /\ RequestedBy(obs.id, obs.dryTrail.cap))
       => LET sh == Val(obs.settled).outcome.shape
              cap == obs.dryTrail.cap
              before == obs.dryTrail.before
              returned == Val(obs.dryResult)
          IN  /\ CarriesEffect(returned.result, sh, cap)
              /\ cap \notin Range(returned.blockedByCapabilities)
              /\ \A i \in BlockedInsights(returned.result.insights) :
                     cap \notin Range(returned.result.insights[i].blocked)
              /\ before[cap] =>
                    /\ Range(returned.blockedByCapabilities) = ShouldBlock(sh, before)
                    /\ \A c \in DOMAIN before :
                           before[c] => CarriesEffect(returned.result, sh, c)

(* C7 witness: message:mutate of a plugin, granted by default, was revoked  *)
(* and granted again, and the dryRun called afterwards returned the         *)
(* mutation while its sound flags were still blocked                        *)
C7_Witness ==
    /\ obs.op = "dryRun"
    /\ IsSome(obs.settled)
    /\ obs.id = "global"
    /\ obs.dryTrail = [phase |-> "regranted", id |-> "global", cap |-> CapMutate,
                       before |-> [c \in {CapMutate, CapToast} |-> TRUE]]
    /\ IsSome(Val(obs.dryResult).result.userMessageMutation)
    /\ Val(obs.dryResult).blockedByCapabilities = <<CapPermission, CapSound>>

(* C8: in every snapshot list() builds, a plugin's capabilitiesGranted are  *)
(* its requested capabilities, in their order, without exactly those the    *)
(* store holds as false; a requested capability without an entry is there.  *)
C8_GrantByDefault ==
    \A i \in 1..Len(obs.rows) :
        LET row == obs.rows[i]
            requested == getRequestedCapabilities(Def(row.id))
            persisted == IF row.id \in DOMAIN store.grants THEN store.grants[row.id]
                         ELSE EmptyMap
            revoked == {cap \in DOMAIN persisted : persisted[cap] = FALSE}
        IN  /\ row.capabilitiesRequested = requested
            /\ row.capabilitiesGranted
                 = SelectSeq(requested, LAMBDA cap : cap \notin revoked)

(* C8 witness: list() reports a plugin with one capability revoked and the  *)
(* other, which has no entry in the store, granted                          *)
C8_Witness ==
    /\ obs.op = "list"
    /\ "guard" \in DOMAIN store.grants
    /\ store.grants["guard"] = Put(EmptyMap, CapPermission, FALSE)
    /\ \E i \in 1..Len(obs.rows) :
          /\ obs.rows[i].id = "guard"
          /\ obs.rows[i].capabilitiesGranted = <<CapPatch>>

(* The persisted config of plugin id fails the plugin's validator *)
PersistedInvalid(id) ==
    /\ id \in Range(definitions)
    /\ id \in DOMAIN store.config
    /\ ValidatorRejects(Def(id), store.config[id])

(* C9: a step that builds the list() snapshot (other than an updateConfig  *)
(* of that plugin, which first replaces the config), or an emit step that  *)
(* invokes the handler of a plugin, while the persisted config of the      *)
(* plugin fails its validator, raises nothing, shows or passes the plugin's *)
(* declared default config, and leaves the default persisted for it.       *)
C9_SelfHealing ==
    [][\A id \in PluginIds :
          PersistedInvalid(id) =>
             /\ \A i \in 1..Len(obs'.rows) :
                    (obs'.rows[i].id = id /\ ~(obs'.op = "updateConfig" /\ obs'.id = id)) =>
                       /\ obs'.rows[i].config = Def(id).defaultConfig
                       /\ store'.config[id] = Def(id).defaultConfig
                       /\ obs'.threw = None
             /\ \A i \in 1..Len(obs'.invoked) :
                    (obs'.op = "emit" /\ obs'.invoked[i].exec.plugin = id) =>
                       /\ obs'.invoked[i].exec.config = Def(id).defaultConfig
                       /\ store'.config[id] = Def(id).defaultConfig
                       /\ obs'.threw = None]_vars

(* C9 witness: an emit has invoked the handler of a plugin whose config in  *)
(* the store was invalid, with the default, and the store holds the default *)
C9_Witness ==
    /\ obs.op = "emit"
    /\ \E i \in 1..Len(obs.invoked) :
          /\ obs.invoked[i].exec.plugin = "guard"
          /\ obs.invoked[i].exec.config = "guard-default"
    /\ "guard" \in warnedInvalidConfig
    /\ store.config = Put(EmptyMap, "guard", "guard-default")

(* C10: updateConfig(id, v) for a registered plugin whose validator rejects *)
(* v raises PluginConfigValidationError with that id and leaves the store   *)
(* as it was.                                                               *)
C10_InvalidUpdateRejected ==
    [][(/\ obs'.op = "updateConfig"
        /\ obs'.id \in Range(definitions)
        /\ ValidatorRejects(Def(obs'.id), Val(obs'.arg.config)))
       => /\ obs'.threw = Some([name |-> "PluginConfigValidationError", pluginId |-> obs'.id])
          /\ obs'.row = None
          /\ store' = store]_vars

(* C10 witness: the update was rejected while a config persisted by an      *)
(* earlier updateConfig is still in the store                               *)
C10_Witness ==
    /\ obs.op = "updateConfig"
    /\ obs.id = "guard"
    /\ obs.arg.config = Some("not-an-object")
    /\ IsSome(obs.threw)
    /\ store.config = Put(EmptyMap, "guard", "custom")

(* C11: emit never awaits a non-blocking plugin, and the telemetry of a     *)
(* non-blocking plugin changes only in the step in which one of its         *)
(* executions settles (its handler settled or its deadline passed).         *)
C11_NonBlockingNotAwaited ==
    [][/\ \A e \in EmitIds :
              emits'[e].pc = "awaiting" => Def(Val(emits'[e].exec).plugin).blocking
       /\ \A p \in DOMAIN stats :
              (~Def(p).blocking /\ stats'[p] # stats[p])
              => /\ obs'.op \in {"onSettled", "dryRun"}
                 /\ obs'.id = p
                 /\ IsSome(obs'.settled)]_vars

(* C11 witness: the emit has returned while the execution of the            *)
(* non-blocking plugin it started is pending, and the plugin's telemetry    *)
(* shows no invocation                                                      *)
C11_Witness ==
    /\ obs.op = "emit"
    /\ IsSome(obs.result)
    /\ \E t \in tasks : t.exec.plugin = "async" /\ t.emit = obs.emit
    /\ stats["async"] = createEmptyStats

(* The candidates of an emit that its snapshot of the store holds enabled *)
EnabledCandidates(em) ==
    SelectSeq(em.candidates, LAMBDA id : ResolveEnabled(Def(id), em.state))

(* C12: the settlement of a non-blocking execution, failed or not, leaves   *)
(* every emit's locals as they are; an emit returns aborted only in the     *)
(* step in which a blocking plugin it awaited failed; and an emit that      *)
(* returns without aborted has invoked every enabled candidate.             *)
C12_NonBlockingFailureHarmless ==
    [][/\ obs'.op = "onSettled" => emits' = emits
       /\ (obs'.op = "emit" /\ IsSome(obs'.result)) =>
             IF Val(obs'.result).aborted
             THEN /\ IsSome(obs'.settled)
                  /\ Val(obs'.settled).blocking
                  /\ Def(Val(obs'.settled).exec.plugin).blocking
                  /\ HandlerFailed(Val(obs'.settled).outcome)
             ELSE Val(obs'.locals).started = EnabledCandidates(Val(obs'.locals))]_vars

(* C12 witness: the non-blocking plugin, whose fail policy is               *)
(* abort_current_action, failed while the emit was under way, and the emit  *)
(* returned without aborted after invoking the candidate that follows it    *)
C12_Witness ==
    /\ obs.op = "emit"
    /\ IsSome(obs.result)
    /\ ~Val(obs.result).aborted
    /\ Val(obs.locals).started = <<"guard", "async", "global">>
    /\ stats["async"].errors + stats["async"].timeouts = 1

(* C13: an emit that awaits a blocking plugin eventually returns, whether   *)
(* or not the handler settles; when the deadline passes first the plugin is *)
(* counted as timed out and an error insight is appended, and the emit      *)
(* returns aborted under abort_current_action and goes on to the next       *)
(* candidate, or returns, under continue.                                   *)
C13_EmitReturnsDespiteHangingHandler ==
    /\ \A e \in EmitIds : (emits[e].pc = "awaiting") ~> (emits[e].pc = "done")
    /\ [][(/\ obs'.op = "emit"
           /\ IsSome(obs'.settled)
           /\ Val(obs'.settled).outcome.kind = "timeout")
          => LET p == Val(obs'.settled).exec.plugin
             IN  /\ stats'[p].timeouts = stats[p].timeouts + 1
                 /\ Len(obs'.pushed) = 1
                 /\ obs'.pushed[1].level = "error"
                 /\ obs'.pushed[1].plugin_id = p
                 /\ IF FailPolicyOf(p) = "abort_current_action"
                    THEN /\ IsSome(obs'.result)
                         /\ Val(obs'.result).aborted
                         /\ obs'.invoked = <<>>
                    ELSE /\ ~Val(obs'.locals).aborted
                         /\ Val(obs'.locals).started
                              = SubSeq(EnabledCandidates(Val(obs'.locals)), 1,
                                       Len(Val(obs'.locals).started))
                         /\ IsSome(obs'.result)
                              => Val(obs'.locals).started
                                   = EnabledCandidates(Val(obs'.locals))]_vars

(* C13 witness: the deadline of the last candidate, whose fail policy is    *)
(* unspecified, passed first, and the emit returned without aborted         *)
C13_Witness ==
    /\ obs.op = "emit"
    /\ IsSome(obs.settled)
    /\ Val(obs.settled).outcome.kind = "timeout"
    /\ Val(obs.settled).exec.plugin = "global"
    /\ IsSome(obs.result)
    /\ ~Val(obs.result).aborted
    /\ stats["global"].timeouts = 1

----------------------------------------------------------------------------
(* Permission decisions: two plugins that request permission:auto-decide,  *)
(* each with the capability granted, revoked or without an entry           *)

DecideStores ==
    { [EmptyState EXCEPT !.grants = g] :
        g \in { Put(EmptyMap, "guard", Put(EmptyMap, CapPermission, TRUE)),
                Put(EmptyMap, "guard", Put(EmptyMap, CapPermission, FALSE)),
                Put(EmptyMap, "auditor", Put(EmptyMap, CapPermission, FALSE)),
                EmptyMap } }

DecideOutcomes ==
    {o \in Outcomes : o.kind \in {"nothing", "result"} \/ (o.kind = "throw" /\ o.truthy)}

InitDecide == InitWith(DecideStores, <<"auditor", "global">>)

NextDecide == Dispatching(DecideOutcomes)

SpecDecide == InitDecide /\ [][NextDecide]_vars

(* The awaited plugin's result carries a decision that passes the gate *)
ContributesDecision(settled) ==
    /\ settled.outcome.kind = "result"
    /\ settled.outcome.shape.pd
    /\ DeclaredAndNotRevoked(settled.exec.plugin, CapPermission, settled.exec.persisted)

(* C14: the permissionDecision of an emit is undefined when the emit       *)
(* starts; when a blocking plugin settles it stays what it was if it was  *)
(* set, and otherwise becomes that plugin's decision exactly when the      *)
(* plugin returned one and holds permission:auto-decide; the emit returns  *)
(* the decision so accumulated.  Hence the first decision that passes the  *)
(* gate, in execution order, is returned, later ones are discarded, and a  *)
(* stripped decision does not take the place of the first.                 *)
C14_FirstDecisionWins ==
    [][obs'.op = "emit" =>
          LET e == obs'.emit
              now == Val(obs'.locals).permissionDecision
          IN  /\ ~IsSome(obs'.settled) => ~IsSome(now)
              /\ IsSome(obs'.settled) =>
                    IF IsSome(emits[e].permissionDecision)
                    THEN now = emits[e].permissionDecision
                    ELSE IF ContributesDecision(Val(obs'.settled))
                    THEN DecisionBy(now, Val(obs'.settled).exec.plugin)
                    ELSE ~IsSome(now)
              /\ IsSome(obs'.result) => Val(obs'.result).permissionDecision = now]_vars

(* C14 witness: the emit returned the decision of the first plugin although *)
(* the last plugin, which holds permission:auto-decide too, returned one   *)
C14_Witness ==
    /\ obs.op = "emit"
    /\ IsSome(obs.result)
    /\ IsSome(obs.settled)
    /\ Val(obs.settled).exec.plugin = "auditor"
    /\ ContributesDecision(Val(obs.settled))
    /\ DecisionBy(Val(obs.result).permissionDecision, "guard")

----------------------------------------------------------------------------
(* Event data patches: the one plugin that requests event:patch, with the  *)
(* capability without an entry or revoked, ahead of a non-blocking and a   *)
(* blocking plugin                                                         *)

PatchStores ==
    { EmptyState,
      [EmptyState EXCEPT !.grants = Put(EmptyMap, "guard", Put(EmptyMap, CapPatch, FALSE))] }

PatchOutcomes == {o \in Outcomes : o.kind # "timeout"}

InitPatch == InitWith(PatchStores, <<"global">>)

NextPatch == Dispatching(PatchOutcomes)

SpecPatch == InitPatch /\ [][NextPatch]_vars

(* The awaited plugin's result carries a patch that passes the gate *)
ContributesPatch(settled) ==
    /\ settled.outcome.kind = "result"
    /\ settled.outcome.shape.patch
    /\ DeclaredAndNotRevoked(settled.exec.plugin, CapPatch, settled.exec.persisted)

----------------------------------------------------------------------------
(* Message middleware: the project and the global middleware registered in *)
(* that order, and the rewriter between them in priority                   *)

MiddlewareOutcomes ==
    {o \in Outcomes : o.kind \in {"nothing", "result"} \/ (o.kind = "throw" /\ o.truthy)}

InitMiddleware == InitWith({EmptyState}, <<"project-plugin", "global-plugin", "rewriter">>)

NextMiddleware == Dispatching(MiddlewareOutcomes)

SpecMiddleware == InitMiddleware /\ [][NextMiddleware]_vars

(* The awaited plugin's result carries a content that passes the gate, and *)
(* the content it carries                                                   *)
ContributesContent(settled) ==
    /\ settled.outcome.kind = "result"
    /\ settled.outcome.shape.umm = "content"
    /\ DeclaredAndNotRevoked(settled.exec.plugin, CapMutate, settled.exec.persisted)

ProducedContent(settled) ==
    MutatedContent(settled.exec.plugin, settled.exec.received.data.content)

(* The awaited plugin's patch passes the gate and writes the content key *)
PatchesContent(settled) ==
    /\ ContributesPatch(settled)
    /\ "content" \in DOMAIN PatchOf(settled.exec.plugin)

ContentOf(mutation) ==
    IF IsSome(mutation) /\ "content" \in DOMAIN Val(mutation)
    THEN Some(Val(mutation).content) ELSE None

(* The steps of an emit of the outgoing message in which a blocking plugin settles *)
MessageSettles ==
    /\ obs'.op = "emit"
    /\ IsSome(obs'.settled)
    /\ Val(Val(obs'.locals).event).name = "user.message.before_send"

(* The returned content is the content of the last mutator that produced one *)
ResultContentIsLastMutators ==
    LET e == obs'.emit
        s == Val(obs'.settled)
    IN  /\ ContentOf(Val(obs'.locals).userMessageMutation) =
              IF ContributesContent(s) THEN Some(ProducedContent(s))
              ELSE ContentOf(emits[e].userMessageMutation)
        /\ IsSome(obs'.result) =>
              Val(obs'.result).userMessageMutation = Val(obs'.locals).userMessageMutation

(* C16 as stated: in an emit of the outgoing message, the content received *)
(* by the plugins invoked after a blocking plugin settles is the content   *)
(* that plugin produced if it is a granted mutator, and otherwise the       *)
(* content received so far (the caller's if no mutator ran); the returned   *)
(* userMessageMutation.content is the last mutator's.                       *)
C16_ContentFromLastMutator ==
    [][MessageSettles =>
          LET e == obs'.emit
              s == Val(obs'.settled)
              now == Val(Val(obs'.locals).mutableEvent).data.content
          IN  /\ \A i \in 1..Len(obs'.invoked) :
                     obs'.invoked[i].exec.received.data.content = now
              /\ now = IF ContributesContent(s) THEN ProducedContent(s)
                       ELSE Val(emits[e].mutableEvent).data.content
              /\ ResultContentIsLastMutators]_vars

(* C16 amended: the same, where a granted eventDataPatch that writes the   *)
(* content key also replaces the content the later plugins receive (a      *)
(* mutation in the same result is applied after the patch).                *)
C16_ContentFromLastMutatorOrPatch ==
    [][MessageSettles =>
          LET e == obs'.emit
              s == Val(obs'.settled)
              now == Val(Val(obs'.locals).mutableEvent).data.content
          IN  /\ \A i \in 1..Len(obs'.invoked) :
                     obs'.invoked[i].exec.received.data.content = now
              /\ now = IF ContributesContent(s) THEN ProducedContent(s)
                       ELSE IF PatchesContent(s) THEN PatchOf(s.exec.plugin).content
                       ELSE Val(emits[e].mutableEvent).data.content
              /\ ResultContentIsLastMutators]_vars

(* C16 witness: the global middleware received "hello", the project        *)
(* middleware received what the global one produced, and the emit returned  *)
(* "[global] hello [project]"                                               *)
C16_Witness ==
    /\ obs.op = "emit"
    /\ IsSome(obs.result)
    /\ IsSome(obs.settled)
    /\ Val(obs.settled).exec.plugin = "project-plugin"
    /\ Val(obs.settled).exec.received.data.content = <<"[global]", "hello">>
    /\ ContentOf(Val(obs.result).userMessageMutation) = Some(<<"[global]", "hello", "[project]">>)

----------------------------------------------------------------------------
(* dryRun of every registered plugin, enabled or not, for both events      *)

DryRunStores ==
    { EmptyState,
      [EmptyState EXCEPT !.enabled = Put(Put(EmptyMap, "async", FALSE), "guard", FALSE)] }

InitDryRun == InitWith(DryRunStores, <<"project", "global">>)

NextDryRun == DryRunning(PluginIds, {None, Some("custom")}, Outcomes)

SpecDryRun == InitDryRun /\ [][NextDryRun]_vars

(* C17: a dryRun call for a registered plugin invokes that plugin's handler *)
(* when it starts, once, whether or not the plugin is enabled or subscribed *)
(* to the event, and no other handler then or when the handler settles; it  *)
(* starts no emit and no non-blocking execution, and what it returns has    *)
(* aborted false and counts no abort, whatever the outcome and fail policy. *)
C17_DryRunRunsOnlyNamedPlugin ==
    [][obs'.op = "dryRun" =>
          /\ emits' = emits
          /\ tasks' = tasks
          /\ (~IsSome(obs'.settled) /\ obs'.id \in Range(definitions)) =>
                /\ Len(obs'.invoked) = 1
                /\ obs'.invoked[1].exec.plugin = obs'.id
                /\ IsSome(dry')
                /\ Val(dry').exec.plugin = obs'.id
          /\ IsSome(obs'.settled) =>
                LET p == Val(obs'.settled).exec.plugin
                IN  /\ obs'.invoked = <<>>
                    /\ IsSome(dry) /\ Val(dry).exec.plugin = p /\ ~IsSome(dry')
                    /\ IsSome(obs'.dryResult)
                    /\ Val(obs'.dryResult).pluginId = p
                    /\ ~Val(obs'.dryResult).result.aborted
                    /\ stats'[p].aborted = stats[p].aborted
                    /\ stats'[p].invocations = stats[p].invocations + 1]_vars

(* C17 witness: the plugin with fail policy abort_current_action, disabled *)
(* and not subscribed to the event, was run by dryRun, threw, and the call  *)
(* returned an error insight with aborted false                             *)
C17_Witness ==
    /\ obs.op = "dryRun"
    /\ IsSome(obs.settled)
    /\ Val(obs.settled).exec.plugin = "async"
    /\ Val(obs.settled).exec.received.name = "user.message.before_send"
    /\ ~Subscribed(Def("async"), Val(obs.settled).exec.received)
    /\ ~ResolveEnabled(Def("async"), store)
    /\ FailPolicyOf("async") = "abort_current_action"
    /\ Val(obs.settled).outcome = [kind |-> "throw", truthy |-> TRUE]
    /\ ~Val(obs.dryResult).result.aborted
    /\ stats["async"].errors = 1

----------------------------------------------------------------------------
(* Calls that name a plugin: one that is never registered and one that is  *)
(* registered later.  The store may hold entries written for an id when it *)
(* was registered by an earlier process.                                   *)

UnknownStores ==
    { EmptyState,
      [ enabled |-> Put(EmptyMap, UnknownId, FALSE),
        config |-> Put(EmptyMap, UnknownId, "custom"),
        grants |-> Put(EmptyMap, UnknownId, Put(EmptyMap, CapMutate, TRUE)) ] }

NamedIds == {UnknownId, "global"}

UnknownGrantInputs == {Put(EmptyMap, CapMutate, BoolValue(FALSE))}

InitUnknown == InitWith(UnknownStores, <<>>)

NextUnknown ==
    \/ Register("global")
    \/ \E id \in NamedIds : GetStats(id)
    \/ \E id \in NamedIds : SetEnabled(id, FALSE)
    \/ \E id \in NamedIds, raw \in {"custom", "not-an-object"} : UpdateConfig(id, raw)
    \/ \E id \in NamedIds, grants \in UnknownGrantInputs : UpdateCapabilityGrants(id, grants)
    \/ DryRunning(NamedIds, {None}, EnableOutcomes)

SpecUnknown == InitUnknown /\ [][NextUnknown]_vars

NamedCalls == {"getStats", "setEnabled", "updateConfig", "updateCapabilityGrants", "dryRun"}

(* C18: getStats, setEnabled, updateConfig, updateCapabilityGrants and     *)
(* dryRun, called with an id that is not registered, return null and throw *)
(* nothing, invoke no handler, and leave the store, the statistics, the    *)
(* health records and the duration windows as they were.                   *)
C18_UnknownIdReturnsNull ==
    [][(obs'.op \in NamedCalls /\ obs'.id \notin Range(definitions)) =>
          /\ ~IsSome(obs'.row)
          /\ ~IsSome(obs'.statsResult)
          /\ ~IsSome(obs'.dryResult)
          /\ ~IsSome(obs'.threw)
          /\ obs'.invoked = <<>>
          /\ dry' = dry
          /\ store' = store
          /\ stats' = stats
          /\ health' = health
          /\ durationWindows' = durationWindows
          /\ warnedInvalidConfig' = warnedInvalidConfig]_vars

(* C18 witness: setEnabled was called for a plugin before it was           *)
(* registered; it returned null and the store has no entry for the plugin  *)
C18_Witness ==
    /\ obs.op = "setEnabled"
    /\ obs.id = "global"
    /\ "global" \notin Range(definitions)
    /\ ~IsSome(obs.row)
    /\ "global" \notin DOMAIN store.enabled

----------------------------------------------------------------------------
(* Health in the snapshots: plugins enabled and disabled, run by dryRun in *)
(* either condition, and the four calls that return a snapshot             *)

InitHealth == InitWith(DryRunStores, <<"global">>)

NextHealth ==
    \/ List
    \/ \E enabled \in BOOLEAN : SetEnabled("global", enabled)
    \/ SetEnabled("guard", TRUE)
    \/ UpdateConfig("global", "custom")
    \/ UpdateCapabilityGrants("global", Put(EmptyMap, CapMutate, BoolValue(FALSE)))
    \/ DryRunning({"guard", "global"}, {None}, EnableOutcomes)

SpecHealth == InitHealth /\ [][NextHealth]_vars

(* The enabled flag of plugin id: the persisted boolean, else the default *)
EnabledFlag(id) ==
    IF id \in DOMAIN store.enabled THEN store.enabled[id] ELSE Def(id).defaultEnabled

(* C19: in every snapshot built by list, setEnabled, updateConfig or       *)
(* updateCapabilityGrants there is a row for every registered plugin, and   *)
(* a row's health status is disabled exactly when the plugin's enabled     *)
(* flag (the persisted boolean, else the definition's default) is false;    *)
(* the row returned by the call is one of the snapshot.                     *)
C19_DisabledIffNotEnabled ==
    /\ obs.op \in {"list", "setEnabled", "updateConfig", "updateCapabilityGrants"}
       /\ ~IsSome(obs.threw) /\ (obs.op = "list" \/ obs.id \in Range(definitions))
          => Len(obs.rows) = Len(definitions)
    /\ \A i \in 1..Len(obs.rows) :
          /\ obs.rows[i].id = definitions[i]
          /\ obs.rows[i].enabled = EnabledFlag(obs.rows[i].id)
          /\ obs.rows[i].health.status = "disabled" <=> ~EnabledFlag(obs.rows[i].id)
    /\ IsSome(obs.row) => \E i \in 1..Len(obs.rows) : obs.rows[i] = Val(obs.row)

(* C19 witness: a plugin that ran once while it was disabled, so that its  *)
(* health record was set from the run, is disabled in the snapshot of list *)
C19_Witness ==
    /\ obs.op = "list"
    /\ \E i \in 1..Len(obs.rows) :
          /\ obs.rows[i].id = "guard"
          /\ ~obs.rows[i].enabled
          /\ obs.rows[i].stats.invocations = 1
          /\ obs.rows[i].health.status = "disabled"

----------------------------------------------------------------------------
(* Telemetry of one plugin: durations recorded one after another.  The     *)
(* samples are the multiples of 10 up to 1000; a run of samples starts at   *)
(* the low end, in the middle or at the high end and then goes up, goes    *)
(* down (both wrapping around) or repeats its first sample.                *)

Samples == {10 * i : i \in 1..WindowCap}
StartSamples == {10, 10 * (WindowCap \div 2), 10 * WindowCap}
Wrap(d) == ((d - 10) % (10 * WindowCap)) + 10

NextSamples(win) ==
    IF win = <<>> THEN StartSamples
    ELSE IF Len(win) = 1 THEN {Wrap(win[1] + 10), Wrap(win[1] - 10), win[1]}
    ELSE IF win[2] = win[1] THEN {win[1]}
    ELSE IF win[2] = Wrap(win[1] + 10) THEN {Wrap(win[Len(win)] + 10)}
    ELSE {Wrap(win[Len(win)] - 10)}

WindowOf(id) == IF id \in DOMAIN durationWindows THEN durationWindows[id] ELSE <<>>

(* One call of updateStatsOnRun for a run that succeeded *)
RecordRun(id, durationMs) ==
    /\ LET m == updateStatsOnRun(Manager, id, durationMs, "success", None)
       IN  SetManager(m)
    /\ obs' = [NoObs EXCEPT !.op = "updateStatsOnRun", !.id = id]
    /\ UNCHANGED <<definitions, emits, tasks, dry, dryRuns, grantTrail>>

NextTelemetry ==
    /\ stats["guard"].invocations < MaxSamples
    /\ \E d \in NextSamples(WindowOf("guard")) : RecordRun("guard", d)

SpecTelemetry == InitDispatch /\ [][NextTelemetry]_vars

(* The least k with k >= 0.95 n, in integers *)
CeilOf95Percent(n) == CHOOSE k \in 0..n : 20 * k >= 19 * n /\ 20 * (k - 1) < 19 * n

(* x is the k-th smallest element of win, counting repetitions *)
IsKthSmallest(x, k, win) ==
    /\ x \in Range(win)
    /\ Cardinality({i \in 1..Len(win) : win[i] < x}) < k
    /\ Cardinality({i \in 1..Len(win) : win[i] <= x}) >= k

(* C20: after n durations are recorded for a plugin, 1 <= n <= 100, the    *)
(* window holds them in the order recorded and p95DurationMs is the        *)
(* ceil(0.95 n)-th smallest of them, which is the element at index         *)
(* ceil(0.95 n) - 1 of the window sorted ascending; it is the greatest one  *)
(* when n < 20, and 950 when the window holds 10, 20, ..., 1000.            *)
C20_P95IsCeilRank ==
    LET win == WindowOf("guard")
        n == stats["guard"].invocations
        p95 == stats["guard"].p95DurationMs
    IN  (n >= 1 /\ n <= WindowCap) =>
           /\ Len(win) = n
           /\ IsKthSmallest(p95, CeilOf95Percent(n), win)
           /\ n < 20 => \A i \in 1..n : win[i] <= p95
           /\ (n = WindowCap /\ Range(win) = Samples) => p95 = 950

(* C20 witness: the samples 1000, 990, ..., 10 were recorded in that order *)
(* and p95DurationMs is 950                                                 *)
C20_Witness ==
    /\ Len(WindowOf("guard")) = WindowCap
    /\ Range(WindowOf("guard")) = Samples
    /\ WindowOf("guard")[1] = 1000
    /\ WindowOf("guard")[2] = 990
    /\ stats["guard"].p95DurationMs = 950

----------------------------------------------------------------------------
(* C21: when a handler run by emit fails, a deadline that passed first is  *)
(* counted in timeouts and not in errors, and a throw or rejection is      *)
(* counted in errors and not in timeouts; for a blocking plugin either     *)
(* failure appends one error insight and sets aborted exactly when the     *)
(* fail policy is abort_current_action.                                    *)
C21_TimeoutCountedApartFromError ==
    [][(/\ obs'.op \in {"emit", "onSettled"}
        /\ IsSome(obs'.settled)
        /\ HandlerFailed(Val(obs'.settled).outcome))
       => LET p == Val(obs'.settled).exec.plugin
              late == Val(obs'.settled).outcome.kind = "timeout"
          IN  /\ stats'[p].timeouts = stats[p].timeouts + (IF late THEN 1 ELSE 0)
              /\ stats'[p].errors = stats[p].errors + (IF late THEN 0 ELSE 1)
              /\ Val(obs'.settled).blocking =>
                    /\ Len(obs'.pushed) = 1
                    /\ obs'.pushed[1].level = "error"
                    /\ obs'.pushed[1].plugin_id = p
                    /\ Val(obs'.locals).aborted
                          <=> FailPolicyOf(p) = "abort_current_action"]_vars

----------------------------------------------------------------------------
(* What emit's blocking path makes of the manager when the execution that  *)
(* dryRun awaited settles the same way as the emit's awaited plugin         *)
AsEmitWouldSettle(settled, event) ==
    BlockingSettled(Manager,
                    [IdleEmit EXCEPT !.event = Some(event), !.mutableEvent = Some(event),
                                     !.candidates = <<settled.exec.plugin>>, !.idx = 1,
                                     !.started = <<settled.exec.plugin>>,
                                     !.exec = Some(settled.exec), !.pc = "awaiting"],
                    settled.outcome, CHOOSE d \in Durations : TRUE).m

(* C22: when the handler of a blocking plugin run by dryRun settles, the   *)
(* plugin's stats and health become what the blocking path of emit makes   *)
(* of them for the same execution and outcome, whatever the fail policy.   *)
C22_DryRunRecordsAsEmit ==
    [][(/\ obs'.op = "dryRun"
        /\ IsSome(obs'.settled)
        /\ Def(Val(obs'.settled).exec.plugin).blocking)
       => LET p == Val(obs'.settled).exec.plugin
              m == AsEmitWouldSettle(Val(obs'.settled), Val(dry).event)
          IN  /\ stats'[p] = m.stats[p]
              /\ health'[p] = m.health[p]]_vars

----------------------------------------------------------------------------
(* The events an emit step handed to handlers, and the current one *)
EventsHandled ==
    {Val(Val(obs'.locals).mutableEvent)}
    \cup {obs'.invoked[i].exec.received : i \in 1..Len(obs'.invoked)}

(* C23: throughout an emit the caller's event is the value that was passed *)
(* to emit, whatever patches and mutations were applied; an event that is   *)
(* the caller's event object or has the caller's data object is the        *)
(* caller's event unchanged, and an event that differs from the one before *)
(* is a new object with a new data object.                                  *)
C23_InputEventNotMutated ==
    [][obs'.op = "emit" =>
          LET e == obs'.emit
              callers == Val(Val(obs'.locals).event)
              now == Val(Val(obs'.locals).mutableEvent)
          IN  /\ callers \in Events
              /\ IsSome(obs'.settled) => callers = Val(emits[e].event)
              /\ \A ev \in EventsHandled :
                    (\/ ev.objects.event = callers.objects.event
                     \/ ev.objects.data = callers.objects.data) => ev = callers
              /\ (IsSome(obs'.settled) /\ now # Val(emits[e].mutableEvent)) =>
                    LET before == Val(emits[e].mutableEvent)
                    IN  /\ now.objects.event \notin {before.objects.event, callers.objects.event}
                        /\ now.objects.data \notin {before.objects.data, callers.objects.data}]_vars

(* C23 witness: an emit of the outgoing message returned after a patch and *)
(* a mutation were applied, the last plugin received a derived event, and   *)
(* the caller's event still reads "hello"                                   *)
C23_Witness ==
    /\ obs.op = "emit"
    /\ IsSome(obs.result)
    /\ IsSome(obs.settled)
    /\ Val(Val(obs.locals).event) = MessageEvent
    /\ IsSome(Val(obs.result).userMessageMutation)
    /\ Val(obs.settled).exec.received.objects.data >= 2
    /\ Val(obs.settled).exec.received.data.origin = "guard"
    /\ Val(obs.settled).exec.received.data.content # <<"hello">>

----------------------------------------------------------------------------
(* The awaited plugin's result carries a mutation that passes the gate, and *)
(* the mutation it carries                                                   *)
ContributesMutation(settled) ==
    /\ settled.outcome.kind = "result"
    /\ settled.outcome.shape.umm # "none"
    /\ DeclaredAndNotRevoked(settled.exec.plugin, CapMutate, settled.exec.persisted)

OwnMutation(settled) ==
    Val(HandlerResult(settled.exec.plugin, settled.exec.received,
                      settled.outcome.shape).userMessageMutation)

FieldOf(mutation, key) ==
    IF IsSome(mutation) /\ key \in DOMAIN Val(mutation)
    THEN Some(Val(mutation)[key]) ELSE None

(* C24: the userMessageMutation of an emit is undefined when the emit      *)
(* starts; when a blocking plugin settles without a granted mutation it    *)
(* stays what it was; when the plugin returned a granted mutation, each of *)
(* content and images becomes the plugin's if the plugin supplied it and   *)
(* stays what it was otherwise, and pluginId becomes the plugin's; the     *)
(* emit returns the mutation so accumulated.                                *)
C24_MutationIsShallowMerge ==
    [][obs'.op = "emit" =>
          LET e == obs'.emit
              now == Val(obs'.locals).userMessageMutation
          IN  /\ ~IsSome(obs'.settled) => ~IsSome(now)
              /\ IsSome(obs'.settled) =>
                    LET s == Val(obs'.settled)
                        before == emits[e].userMessageMutation
                    IN  IF ContributesMutation(s)
                        THEN /\ IsSome(now)
                             /\ DOMAIN Val(now) \subseteq {"content", "images", "pluginId"}
                             /\ Val(now).pluginId = s.exec.plugin
                             /\ \A key \in {"content", "images"} :
                                   FieldOf(now, key) =
                                      IF key \in DOMAIN OwnMutation(s)
                                      THEN Some(OwnMutation(s)[key])
                                      ELSE FieldOf(before, key)
                        ELSE now = before
              /\ IsSome(obs'.result) => Val(obs'.result).userMessageMutation = now]_vars

(* C24 witness: the emit returned the content of the global middleware and *)
(* the images of the project middleware, which ran last and is named        *)
C24_Witness ==
    /\ obs.op = "emit"
    /\ IsSome(obs.result)
    /\ FieldOf(Val(obs.result).userMessageMutation, "content") = Some(<<"[global]", "hello">>)
    /\ FieldOf(Val(obs.result).userMessageMutation, "images") = Some(<<"project-plugin">>)
    /\ Val(Val(obs.result).userMessageMutation).pluginId = "project-plugin"

----------------------------------------------------------------------------
(* What the claim gives as the contribution of an awaited blocking plugin *)
(* to the returned insights                                               *)
ContributionOf(settled, event) ==
    IF HandlerFailed(settled.outcome)
    THEN <<toPluginErrorInsight(settled.exec.plugin, event, settled.outcome)>>
    ELSE IF settled.outcome.kind = "result"
    THEN Val(ExecutePluginEnd(settled.exec, settled.outcome).result).insights
    ELSE <<>>

(* C25: the insights of an emit are empty when the emit starts; when a     *)
(* blocking plugin settles they grow at the end by that plugin's           *)
(* contribution: its sanitized insights followed by its "Capability        *)
(* blocked" insight if it has one, or one error insight if the plugin      *)
(* failed; the emit returns the list so accumulated.                        *)
C25_InsightsInExecutionOrder ==
    [][obs'.op = "emit" =>
          LET e == obs'.emit
              now == Val(obs'.locals).insights
          IN  /\ ~IsSome(obs'.settled) => now = <<>>
              /\ IsSome(obs'.settled) =>
                    now = emits[e].insights
                          \o ContributionOf(Val(obs'.settled), Val(Val(obs'.locals).event))
              /\ IsSome(obs'.result) => Val(obs'.result).insights = now]_vars

----------------------------------------------------------------------------
(* Emits whose non-blocking plugin returns insights, with an onInsight     *)
(* callback that may raise an error at any of its calls                    *)

MaxCalls == 3

NextCallback ==
    \/ \E id \in Registrable : Register(id)
    \/ Dispatching(Outcomes)
    \/ \E task \in tasks, outcome \in Outcomes, d \in Durations, at \in 1..MaxCalls :
           TaskSettleCallbackThrows(task, outcome, d, at)

SpecCallback == InitDispatch /\ [][NextCallback]_vars

(* What a settled non-blocking execution has for onInsight: the sanitized  *)
(* insights of its result, the "Capability blocked" insight last           *)
InsightsOf(settled) ==
    IF settled.outcome.kind = "result"
    THEN Val(ExecutePluginEnd(settled.exec, settled.outcome).result).insights
    ELSE <<>>

OfNonBlocking(insight) == ~Def(insight.plugin_id).blocking

----------------------------------------------------------------------------
(* updateCapabilityGrants over stores that hold grants of two plugins, a   *)
(* disabled plugin, and for some a config written by hand                   *)

FrameGrants ==
    { EmptyMap,
      Put(EmptyMap, "guard", Put(EmptyMap, CapPermission, FALSE)),
      Put(Put(EmptyMap, "guard", Put(EmptyMap, CapPatch, TRUE)),
          "global", Put(EmptyMap, CapMutate, FALSE)) }

FrameConfigs ==
    { EmptyMap,
      Put(EmptyMap, "guard", "custom"),
      Put(EmptyMap, "guard", "not-an-object"),
      Put(Put(EmptyMap, "async", "not-an-object"), "global", "not-an-object") }

FrameStores ==
    { [enabled |-> Put(EmptyMap, "global", FALSE), config |-> c, grants |-> g] :
         c \in FrameConfigs, g \in FrameGrants }

InitFrame == InitWith(FrameStores, <<"global">>)

(* Requested booleans, an unrequested boolean and a value of another type *)
FrameInputs ==
    { Put(EmptyMap, CapPermission, BoolValue(FALSE)),
      Put(EmptyMap, CapPermission, BoolValue(TRUE)),
      Put(EmptyMap, CapMutate, BoolValue(FALSE)),
      Put(EmptyMap, CapSound, BoolValue(TRUE)),
      Put(Put(EmptyMap, CapPatch, OtherValue), CapToast, BoolValue(FALSE)) }

NextFrame ==
    \E id \in {"guard", "global", UnknownId}, grants \in FrameInputs :
        UpdateCapabilityGrants(id, grants)

SpecFrame == InitFrame /\ [][NextFrame]_vars

(* The persisted grant of capability cap of plugin id, if any *)
GrantEntry(state, id, cap) ==
    IF id \in DOMAIN state.grants THEN Get(state.grants[id], cap) ELSE None

(* A call updateCapabilityGrants(id, grants) for a registered id returned *)
GrantsUpdated ==
    /\ obs'.op = "updateCapabilityGrants"
    /\ IsSome(obs'.row)

(* The call changed the grants as the claim says, raised no error, and     *)
(* left the enabled map alone                                              *)
GrantsFrame ==
    LET id == obs'.id
        grants == Val(obs'.arg.grants)
        requested == Range(getRequestedCapabilities(Def(id)))
    IN  /\ ~IsSome(obs'.threw)
        /\ \A cap \in Capabilities :
              GrantEntry(store', id, cap) =
                 IF cap \in requested /\ cap \in DOMAIN grants /\ grants[cap].type = "boolean"
                 THEN Some(grants[cap].value)
                 ELSE GrantEntry(store, id, cap)
        /\ \A p \in (DOMAIN store.grants \cup DOMAIN store'.grants) \ {id} :
              Get(store'.grants, p) = Get(store.grants, p)
        /\ store'.enabled = store.enabled

(* C27 as stated: updateCapabilityGrants(id, grants) sets exactly the      *)
(* entries of plugin id whose key is requested and whose value is a        *)
(* boolean, ignores the others without error, and leaves the other grants, *)
(* the enabled map and the config map as they were.                        *)
C27_OnlyRequestedBooleanGrantsChange ==
    [][GrantsUpdated => (GrantsFrame /\ store'.config = store.config)]_vars

(* C27 amended: the same, where the config map is as it was except that a  *)
(* persisted config which the validator of its registered plugin rejects   *)
(* is replaced by that plugin's default (the snapshot the call returns is  *)
(* built by list(), which heals).                                           *)
C27_OnlyGrantsChangeAndInvalidConfigsHeal ==
    [][GrantsUpdated =>
          /\ GrantsFrame
          /\ DOMAIN store'.config = DOMAIN store.config
          /\ \A p \in DOMAIN store.config :
                 store'.config[p] =
                    IF p \in Range(definitions) /\ ValidatorRejects(Def(p), store.config[p])
                    THEN Def(p).defaultConfig
                    ELSE store.config[p]]_vars

(* C27 witness: a call for the guard with a requested boolean returned;    *)
(* the store holds it, the guard's other grant and the other plugin's      *)
(* grant are as they were                                                   *)
C27_Witness ==
    /\ obs.op = "updateCapabilityGrants"
    /\ obs.id = "guard"
    /\ IsSome(obs.row)
    /\ obs.arg.grants = Some(Put(EmptyMap, CapPermission, BoolValue(FALSE)))
    /\ store.grants["guard"] = [c \in {CapPermission, CapPatch} |->
                                   IF c = CapPatch THEN TRUE ELSE FALSE]
    /\ store.grants["global"] = Put(EmptyMap, CapMutate, FALSE)
    /\ store.config = Put(EmptyMap, "guard", "custom")

----------------------------------------------------------------------------
(* Plugin id is persisted as disabled in state *)
PersistedDisabled(state, id) == Get(state.enabled, id) = Some(FALSE)

(* C28: a step that records a run of a plugin persisted as disabled leaves *)
(* the plugin's health record disabled.                                     *)
C28_RecordKeepsDisabledHealth ==
    [][\A p \in DOMAIN stats :
          (/\ stats'[p] # stats[p]
           /\ PersistedDisabled(store', p)
           /\ health[p].status = "disabled")
          => health'[p].status = "disabled"]_vars

----------------------------------------------------------------------------
(* Health after failures.  The manager starts after up to PriorFailures    *)
(* failed runs of the global plugin; one emit and one dryRun may add two.  *)

PriorFailures == 2

RECURSIVE AfterFailedRuns(_, _, _)
AfterFailedRuns(m, id, n) ==
    IF n = 0 THEN m
    ELSE updateStatsOnRun(AfterFailedRuns(m, id, n - 1), id,
                          CHOOSE d \in Durations : TRUE, "error", Some("boom"))

InitDegrade ==
    /\ definitions = RegisterAll(<<"global">>, Constructed).definitions
    /\ warnedInvalidConfig = {}
    /\ warnings = EmptyMap
    /\ \E n \in 0..PriorFailures :
          LET registered == RegisterAll(<<"global">>, Constructed)
              m == AfterFailedRuns([ store |-> EmptyState, warned |-> {}, warnings |-> EmptyMap,
                                     stats |-> registered.stats,
                                     health |-> registered.health,
                                     windows |-> EmptyMap ], "global", n)
          IN  /\ store = m.store
              /\ stats = m.stats
              /\ health = m.health
              /\ durationWindows = m.windows
    /\ emits = [e \in EmitIds |-> IdleEmit]
    /\ tasks = {}
    /\ dry = None
    /\ dryRuns = 0
    /\ grantTrail = NoTrail
    /\ obs = NoObs

DegradeOutcomes ==
    {o \in Outcomes : o.kind \in {"nothing", "timeout"} \/ (o.kind = "throw" /\ o.truthy)}

NextDegrade ==
    \/ List
    \/ \E enabled \in BOOLEAN : SetEnabled("global", enabled)
    \/ Dispatching(DegradeOutcomes)
    \/ DryRunning({"global"}, {None}, DegradeOutcomes)

SpecDegrade == InitDegrade /\ [][NextDegrade]_vars

(* C29: in every snapshot list() returns, the health of an enabled plugin  *)
(* is degraded if its errors and timeouts together are at least 3 with     *)
(* invocations above 0, and healthy otherwise.                             *)
C29_DegradedIffThreeFailures ==
    obs.op = "list" =>
       \A i \in 1..Len(obs.rows) :
           obs.rows[i].enabled =>
              obs.rows[i].health.status =
                 IF /\ obs.rows[i].stats.errors + obs.rows[i].stats.timeouts >= DegradedThreshold
                    /\ obs.rows[i].stats.invocations > 0
                 THEN "degraded" ELSE "healthy"

----------------------------------------------------------------------------
(* Telemetry around a full window.  The manager starts after 99 runs of    *)
(* the guard that succeeded, with durations 10, 20, ..., 990, or 1000,     *)
(* 990, ..., 20, or 500 each time; up to MaxExtra further durations are    *)
(* recorded.                                                                *)

MaxExtra == 3

AlmostFull == WindowCap - 1

StartWindows ==
    { [i \in 1..AlmostFull |-> 10 * i],
      [i \in 1..AlmostFull |-> 10 * (WindowCap + 1 - i)],
      [i \in 1..AlmostFull |-> 500] }

ExtraSamples == {20, 500, 1000}

(* The manager after the durations of win were recorded one by one: the    *)
(* last call of updateStatsOnRun applied to the counters and the window    *)
(* the calls before it left                                                 *)
AfterRecording(win) ==
    LET before == SubSeq(win, 1, Len(win) - 1)
    IN  updateStatsOnRun(
            [ store |-> EmptyState, warned |-> {}, warnings |-> EmptyMap,
              stats |-> Put(Constructed.stats, "guard",
                            [createEmptyStats EXCEPT !.invocations = Len(before),
                                                     !.successes = Len(before)]),
              health |-> Constructed.health,
              windows |-> Put(EmptyMap, "guard", before) ],
            "guard", win[Len(win)], "success", None)

InitEviction ==
    /\ definitions = Constructed.definitions
    /\ warnedInvalidConfig = {}
    /\ warnings = EmptyMap
    /\ \E win \in StartWindows :
          /\ store = AfterRecording(win).store
          /\ stats = AfterRecording(win).stats
          /\ health = AfterRecording(win).health
          /\ durationWindows = AfterRecording(win).windows
    /\ emits = [e \in EmitIds |-> IdleEmit]
    /\ tasks = {}
    /\ dry = None
    /\ dryRuns = 0
    /\ grantTrail = NoTrail
    /\ obs = NoObs

NextEviction ==
    /\ stats["guard"].invocations < AlmostFull + MaxExtra
    /\ \E d \in ExtraSamples : RecordRun("guard", d)

SpecEviction == InitEviction /\ [][NextEviction]_vars

(* C30: a window never holds more than 100 samples; recording a duration   *)
(* appends it, and on a full window drops the oldest sample and no other;  *)
(* avgDurationMs is the rounded mean and p95DurationMs the ceil(0.95 n)-th *)
(* smallest of the n samples the window then holds.                         *)
C30_WindowKeepsLastHundred ==
    [][obs'.op = "updateStatsOnRun" =>
          LET id == obs'.id
              old == WindowOf(id)
              win == durationWindows'[id]
              d == stats'[id].lastDurationMs
          IN  /\ Len(win) <= WindowCap
              /\ win = IF Len(old) = WindowCap THEN Append(Tail(old), d) ELSE Append(old, d)
              /\ stats'[id].avgDurationMs = RoundDiv(SumSeq(win), Len(win))
              /\ IsKthSmallest(stats'[id].p95DurationMs, CeilOf95Percent(Len(win)), win)]_vars

(* C30 witness: 102 durations were recorded, the first of them 10 and 20   *)
(* and the last three 1000; the window holds 100 samples from 30 on, and   *)
(* p95DurationMs is 970, the 95th smallest of those                         *)
C30_Witness ==
    /\ obs.op = "updateStatsOnRun"
    /\ stats["guard"].invocations = WindowCap + 2
    /\ Len(WindowOf("guard")) = WindowCap
    /\ WindowOf("guard")[1] = 30
    /\ SubSeq(WindowOf("guard"), WindowCap - 2, WindowCap) = <<1000, 1000, 1000>>
    /\ stats["guard"].p95DurationMs = 970

----------------------------------------------------------------------------
(* Administration while a dispatch is under way: the store may hold a      *)
(* config of the non-blocking plugin written by hand; list, updateConfig   *)
(* and setEnabled are called between the steps of an emit                   *)

StaleStores ==
    { EmptyState,
      [EmptyState EXCEPT !.config = Put(EmptyMap, "async", "not-an-object")],
      [EmptyState EXCEPT !.config = Put(EmptyMap, "async", "custom")] }

InitStale == InitWith(StaleStores, <<>>)

NextStale ==
    \/ List
    \/ \E raw \in {"custom", "not-an-object"} : UpdateConfig("async", raw)
    \/ \E enabled \in BOOLEAN : SetEnabled("async", enabled)
    \/ Dispatching(ConfigOutcomes)

SpecStale == InitStale /\ [][NextStale]_vars

(* C31: resolveConfig writes its warning for a plugin (console.warn) at   *)
(* most once, however often the plugin's config is resolved and whatever  *)
(* is called in between.                                                    *)
C31_WarnedAtMostOnce ==
    \A p \in DOMAIN warnings : warnings[p] <= 1

----------------------------------------------------------------------------
(* C32: when an emit invokes the handler of a blocking plugin, no handler  *)
(* of a blocking plugin it invoked before is still running: the awaited    *)
(* handlers of the emit that have not settled are that one alone.           *)
C32_BlockingHandlersNeverOverlap ==
    [][(obs'.op = "emit" /\ emits'[obs'.emit].pc = "awaiting")
          => Val(obs'.locals).running = <<Val(emits'[obs'.emit].exec).plugin>>]_vars

----------------------------------------------------------------------------
(* The handler invocations of a step that are of plugin id *)
InvocationsOf(id) ==
    {i \in 1..Len(obs'.invoked) : obs'.invoked[i].exec.plugin = id}

(* C33 as stated: in an emit of the outgoing message the global            *)
(* middleware (priority 100) runs after the project middleware (priority   *)
(* 50): when its handler is invoked the project middleware's has been.     *)
C33_HigherPriorityRunsSecond ==
    [][(obs'.op = "emit" /\ InvocationsOf("global-plugin") # {})
          => (Val(Val(obs'.locals).event).name = "user.message.before_send"
                 => "project-plugin" \in Range(emits[obs'.emit].started))]_vars

(* C33 amended: the global middleware (priority 100) runs first and         *)
(* receives the caller's content; the project middleware (priority 50)     *)
(* runs after it has settled and receives its output, "[global] hello",    *)
(* when it returned a granted content (and no plugin between them patched  *)
(* the content); the emit then returns what the project middleware made of *)
(* what it received.                                                         *)
C33_HigherPriorityRunsFirst ==
    [][(/\ obs'.op = "emit"
        /\ Val(Val(obs'.locals).event).name = "user.message.before_send") =>
          LET e == obs'.emit
              now == Val(obs'.locals)
          IN  /\ \A i \in InvocationsOf("global-plugin") :
                    /\ Range(emits[e].started) \cap DOMAIN MiddlewareDefs = {}
                    /\ obs'.invoked[i].exec.received.data.content = Val(now.event).data.content
              /\ \A i \in InvocationsOf("project-plugin") :
                    /\ "global-plugin" \in Range(emits[e].started)
                    /\ "global-plugin" \notin Range(now.running)
                    /\ obs'.invoked[i].exec.received.data.content =
                          IF IsSome(obs'.settled) /\ PatchesContent(Val(obs'.settled))
                          THEN PatchOf(Val(obs'.settled).exec.plugin).content
                          ELSE IF IsSome(ContentOf(emits[e].userMessageMutation))
                          THEN MutatedContent("global-plugin", Val(now.event).data.content)
                          ELSE Val(now.event).data.content
              /\ (/\ IsSome(obs'.settled)
                  /\ Val(obs'.settled).exec.plugin = "project-plugin"
                  /\ ContributesContent(Val(obs'.settled)))
                 => ContentOf(now.userMessageMutation) =
                       Some(MutatedContent("project-plugin",
                                           Val(obs'.settled).exec.received.data.content))]_vars

(* C33 witness: the project middleware is invoked third, after the global   *)
(* middleware returned "[global] hello", and receives that                   *)
C33_Witness ==
    /\ obs.op = "emit"
    /\ Len(obs.invoked) = 1
    /\ obs.invoked[1].exec.plugin = "project-plugin"
    /\ Val(obs.locals).started = <<"guard", "global-plugin", "rewriter", "project-plugin">>
    /\ obs.invoked[1].exec.received.data.content = <<"[global]", "hello">>

----------------------------------------------------------------------------
(* Every way a run is recorded: emits with blocking and non-blocking       *)
(* plugins, an onInsight callback that may raise an error, and dryRun      *)

NextCounters ==
    \/ NextCallback
    \/ DryRunning({"guard", "async"}, {None}, Outcomes)

SpecCounters == InitDispatch /\ [][NextCounters]_vars

CountersAddUp(s) ==
    /\ s.invocations = s.successes + s.errors + s.timeouts
    /\ s.aborted <= s.errors + s.timeouts

(* C34: for every plugin, invocations = successes + errors + timeouts and  *)
(* aborted <= errors + timeouts in every state; the aborted counter changes *)
(* only by one, in the step of an emit in which the awaited blocking       *)
(* plugin, whose fail policy is abort_current_action, failed, together     *)
(* with its errors or timeouts counter; never in a step of dryRun or in    *)
(* the settlement of a non-blocking run.                                    *)
C34_CountersAddUp ==
    /\ \A p \in DOMAIN stats : CountersAddUp(stats[p])
    /\ [][\A p \in DOMAIN stats' :
             /\ CountersAddUp(stats'[p])
             /\ (p \in DOMAIN stats /\ stats'[p].aborted # stats[p].aborted) =>
                   /\ stats'[p].aborted = stats[p].aborted + 1
                   /\ stats'[p].errors + stats'[p].timeouts
                         = stats[p].errors + stats[p].timeouts + 1
                   /\ obs'.op = "emit"
                   /\ IsSome(obs'.settled)
                   /\ Val(obs'.settled).blocking
                   /\ Val(obs'.settled).exec.plugin = p
                   /\ Def(p).blocking
                   /\ FailPolicyOf(p) = "abort_current_action"
                   /\ HandlerFailed(Val(obs'.settled).outcome)]_vars

(* C34 witness: the guard failed in an emit, which it aborted, and the     *)
(* non-blocking plugin, whose policy is abort_current_action too, failed   *)
(* in a dryRun: aborted is 1 for the guard and 0 for the other plugin      *)
C34_Witness ==
    /\ stats["guard"].errors + stats["guard"].timeouts = 1
    /\ stats["guard"].aborted = 1
    /\ stats["async"].errors + stats["async"].timeouts = 1
    /\ stats["async"].aborted = 0

----------------------------------------------------------------------------
(* C35: the persisted config of a plugin is replaced, in a step other than *)
(* that plugin's own updateConfig, only when the value persisted before    *)
(* the step fails the plugin's validation; a value that updateConfig       *)
(* accepted and persisted is therefore never replaced by the default, also *)
(* when an emit that read its state before the updateConfig executes the   *)
(* plugin after it.                                                         *)
C35_HealingOnlyReplacesInvalid ==
    [][\A p \in PluginIds :
         (/\ Get(store'.config, p) # Get(store.config, p)
          /\ ~(obs'.op = "updateConfig" /\ obs'.id = p))
           => /\ IsSome(Get(store.config, p))
              /\ ValidatorRejects(Def(p), Val(Get(store.config, p)))]_vars

----------------------------------------------------------------------------
(* dryRun with and without a config override, valid or rejected, over      *)
(* stores that hold no config, a valid one or an invalid one               *)

PreviewStores ==
    StaleStores \cup { [EmptyState EXCEPT !.config = Put(EmptyMap, "guard", "custom")] }

InitPreview == InitWith(PreviewStores, <<"global">>)

NextPreview ==
    DryRunning({"guard", "async", "global"},
               {None, Some("custom"), Some("not-an-object")}, DispatchOutcomes)

SpecPreview == InitPreview /\ [][NextPreview]_vars

(* C36: a dryRun call leaves the persisted enabled, config and grants maps *)
(* as they were, for every plugin, event and config override, valid or     *)
(* rejected by the validator, both when the handler is invoked and when it *)
(* settles.                                                                 *)
C36_DryRunLeavesStoreAlone ==
    [][obs'.op = "dryRun" => store' = store]_vars

(* C37: when dryRun is called without a config override, the handler is    *)
(* invoked with the config that executePlugin resolves from the value      *)
(* persisted for the plugin, as for an emit in the same state: the         *)
(* persisted config when it is valid, the default when none is persisted   *)
(* or the persisted one is invalid.                                         *)
C37_DryRunUsesPersistedConfig ==
    [][(obs'.op = "dryRun" /\ obs'.invoked # <<>> /\ obs'.arg.config = None) =>
          obs'.invoked[1].exec.config
            = resolveConfig(Def(obs'.id), Get(store.config, obs'.id), TRUE).config]_vars

----------------------------------------------------------------------------
(* C38: every handler invocation started by emit or dryRun is recorded     *)
(* once: in the step in which an invocation of a plugin settles (by its    *)
(* result, its error or its deadline) the plugin's invocations counter     *)
(* grows by exactly one, also when onInsight raises an error while the     *)
(* insights of a non-blocking plugin are delivered, and in every other     *)
(* step the counter stays as it is.                                         *)
C38_OneRecordPerInvocation ==
    [][\A p \in DOMAIN stats :
          stats'[p].invocations =
              stats[p].invocations
                + (IF IsSome(obs'.settled) /\ Val(obs'.settled).exec.plugin = p
                   THEN 1 ELSE 0)]_vars

----------------------------------------------------------------------------
(* Emits over a non-blocking plugin that sorts before the guard, the guard *)
(* (blocking, abort_current_action) and the non-blocking plugin after it   *)

InitAbort == InitWith({EmptyState}, <<"watcher">>)

NextAbort == Dispatching(DispatchOutcomes)

SpecAbort == InitAbort /\ [][NextAbort]_vars

(* C39: when the awaited blocking plugin, whose fail policy is             *)
(* abort_current_action, fails, the emit returns aborted in that step and  *)
(* starts no further handler: no non-blocking candidate of lower priority  *)
(* has been started in that emit; the non-blocking executions started      *)
(* before stay pending, and each of them records its run when it settles.  *)
C39_AbortStopsDispatch ==
    [][/\ (/\ obs'.op = "emit"
           /\ IsSome(obs'.settled)
           /\ FailPolicyOf(Val(obs'.settled).exec.plugin) = "abort_current_action"
           /\ HandlerFailed(Val(obs'.settled).outcome)) =>
             LET em == Val(obs'.locals)
                 failed == Def(Val(obs'.settled).exec.plugin)
             IN  /\ obs'.invoked = <<>>
                 /\ IsSome(obs'.result)
                 /\ Val(obs'.result).aborted
                 /\ \A id \in Range(em.candidates) :
                        (~Def(id).blocking /\ Def(id).priority < failed.priority)
                          => id \notin Range(em.started)
                 /\ tasks' = tasks
       /\ obs'.op = "onSettled" =>
             /\ stats'[obs'.id].invocations = stats[obs'.id].invocations + 1
             /\ \A p \in DOMAIN stats \ {obs'.id} : stats'[p] = stats[p]]_vars

----------------------------------------------------------------------------
(* The enabled flag of plugin id in the persisted state snapshot *)
EnabledIn(snapshot, id) ==
    IF id \in DOMAIN snapshot.enabled THEN snapshot.enabled[id] ELSE Def(id).defaultEnabled

(* C40: an emit reads the persisted state once, when it starts, and every  *)
(* later step of it works on that snapshot: the candidates it passes over  *)
(* in a step are invoked exactly when the snapshot has them enabled, in    *)
(* candidate order, and each is handed the config resolved from the value  *)
(* the snapshot holds for it, whatever setEnabled and updateConfig wrote   *)
(* to the store while the emit was awaiting a blocking plugin; an emit     *)
(* that starts takes the store as it is then.                               *)
C40_SelectionFromSnapshot ==
    [][obs'.op = "emit" =>
         LET e == obs'.emit
             em == Val(obs'.locals)
             starting == emits[e].pc = "idle"
             snapshot == IF starting THEN store ELSE emits[e].state
             lo == IF starting THEN 1 ELSE emits[e].idx + 1
             hi == IF emits'[e].pc = "awaiting" THEN em.idx ELSE Len(em.candidates)
             passed == IF em.aborted THEN <<>> ELSE SubSeq(em.candidates, lo, hi)
             chosen == SelectSeq(passed, LAMBDA id : EnabledIn(snapshot, id))
         IN  /\ em.state = snapshot
             /\ ~starting => em.candidates = emits[e].candidates
             /\ Len(obs'.invoked) = Len(chosen)
             /\ \A i \in 1..Len(chosen) :
                    /\ obs'.invoked[i].exec.plugin = chosen[i]
                    /\ obs'.invoked[i].exec.config
                         = resolveConfig(Def(chosen[i]), Get(snapshot.config, chosen[i]),
                                         TRUE).config]_vars

(* C40 witness: while the emit awaited the guard, updateConfig persisted a *)
(* config for the non-blocking plugin and setEnabled disabled it; the emit *)
(* then invoked it all the same, with the default config of its snapshot   *)
C40_Witness ==
    /\ obs.op = "emit"
    /\ IsSome(obs.settled)
    /\ Val(obs.settled).exec.plugin = "guard"
    /\ Len(obs.invoked) = 1
    /\ obs.invoked[1].exec.plugin = "async"
    /\ obs.invoked[1].exec.config = "async-default"
    /\ Get(store.config, "async") = Some("custom")
    /\ Get(store.enabled, "async") = Some(FALSE)

====
